---- MODULE Spec2Model ----
(***************************************************************************)
(* State-machine model of the RV3032-C7 driver core (src/src/RV3032.cpp,   *)
(* the implementation that begins at line 1164 of that file): transport    *)
(* wrappers, health tracker, EEPROM persistence engine and the facade      *)
(* operations built on them.                                               *)
(*                                                                         *)
(* One action models one public call in full.  A call threads a context    *)
(* record c = [rtc, bus, tx, st, val, log, ev] through the operators that  *)
(* model the private helpers: rtc is the driver object, bus the device     *)
(* registers, tx the number of transport invocations made so far by the    *)
(* call, st the Status code the last helper returned, val the byte(s) the  *)
(* last read produced, log the outcomes seen by _updateHealth and ev the   *)
(* queue events of the call.  The environment of a call is a plan p: the   *)
(* index of the transport invocation that fails (0: none), the error it    *)
(* fails with, and what the volatile registers read as.                    *)
(*                                                                         *)
(* Not modelled: Status::detail and Status::msg, and the facade operations *)
(* that no property below uses.                                            *)
(***************************************************************************)
EXTENDS Integers, Sequences, FiniteSets, TLC

VARIABLES
  rtc,    \* the RV3032 object: _config, _initialized, health fields, _eeprom
  bus,    \* the device: the registers the modelled operations touch
  now,    \* millis(), a free-running 32-bit millisecond counter
  call,   \* the last public call: its name, returned code, transport count
  fifo    \* history: the accepted writes that have not been started, in order

vars == <<rtc, bus, now, call, fifo>>

----------------------------------------------------------------------------
(* Bounds of the model *)

\* No call starts once this many tracked transactions have been counted.
MaxTracked == 4
\* The clock advances at most this many times.
MaxElapse == 1
\* The same limit in the specification that fills the pending-write queue.
MaxTrackedQ == 32
\* ... and the number of failed tracked transactions it injects at most.
MaxFailQ == 1
\* The same two limits in the specification that runs one write to its end.
MaxTrackedE == 16
MaxFailE == 2
\* ... and the number of times its clock jumps ahead.
MaxElapseE == 1
\* In the specification of the engine's progress: the writes queued behind
\* the one begin() starts, the time between two ticks in milliseconds, and
\* the ticks after which the clock stops, per accepted write.
MaxWritesL == 1
\* The limit on tracked transactions in the specification of the lifecycle
\* calls that arrive while a write is in flight.
MaxTrackedU == 8
\* In the specification of the saturating counters: how far below their
\* maxima the lifetime counters and the failure streak start at most.
MaxBelowS == 2
TickMsL == 25
TicksPerWriteL == 10

----------------------------------------------------------------------------
(* Program constants *)

UINT8_MAX == 255
kEepromPreCmdTimeoutMs == 50
kEepromQueueSize == 8
kMaxTimerFrequency == 3
kMaxClkoutFrequency == 3
kMaxEviDebounce == 3
I2C_ADDR_7BIT == 81

REG_SECONDS == 1
REG_ALARM_MINUTE == 8
REG_TIMER_LOW == 11
REG_TIMER_HIGH == 12
REG_STATUS == 13
REG_TEMP_LSB == 14
REG_CONTROL1 == 16
REG_EVI_CONTROL == 21
REG_EE_ADDRESS == 61
REG_EE_DATA == 62
REG_EE_COMMAND == 63
REG_EEPROM_PMU == 192
REG_EEPROM_CLKOUT2 == 195

CTRL1_EERD_BIT == 2
CTRL1_TE_BIT == 3
CTRL1_TD_MASK == 3
PMU_CLKOUT_DISABLE == 64
PMU_BSM_MASK == 48
PMU_BSM_LEVEL == 32
PMU_BSM_DIRECT == 16
CLKOUT_FREQ_MASK == 96
CLKOUT_FREQ_SHIFT == 5
EVI_DB_MASK == 48
EVI_DB_SHIFT == 4
EEPROM_CMD_UPDATE == 33
EEPROM_BUSY_BIT == 2
EEPROM_ERROR_BIT == 3

----------------------------------------------------------------------------
(* Byte and word arithmetic *)

Pow2(k) == 2 ^ k

\* A uint32_t is the pair <<high half, low half>> of its 16-bit halves.
W16 == Pow2(16)

UINT32_MAX == <<W16 - 1, W16 - 1>>

\* n as a uint32_t, for 0 <= n < 2^31
U32Of(n) == <<n \div W16, n % W16>>

\* a + n modulo 2^32, for 0 <= n < 2^31
U32Add(a, n) ==
  LET lo == a[2] + (n % W16)
      hi == a[1] + (n \div W16) + (lo \div W16)
  IN  <<hi % W16, lo % W16>>

\* a - b modulo 2^32
U32Sub(a, b) ==
  LET lo == a[2] - b[2]
      hi == a[1] - b[1] - (IF lo < 0 THEN 1 ELSE 0)
  IN  <<(hi + W16) % W16, (lo + W16) % W16>>

\* a + b modulo 2^32
U32Plus(a, b) ==
  LET lo == a[2] + b[2]
      hi == a[1] + b[1] + (lo \div W16)
  IN  <<hi % W16, lo % W16>>

U32Lt(a, b) == a[1] < b[1] \/ (a[1] = b[1] /\ a[2] < b[2])

\* Variant: ++x without the guard, wrapping to 0
U32Inc_Wrap(a) == U32Add(a, 1)

\* ++x on a saturating uint32_t counter
U32Inc(a) == IF U32Lt(a, UINT32_MAX) THEN U32Add(a, 1) ELSE a

U8(x) == x % (UINT8_MAX + 1)

Bit(b, k) == (b \div Pow2(k)) % 2

\* a & b on bytes
BitAnd(a, b) ==
  Bit(a, 0) * Bit(b, 0) + 2 * Bit(a, 1) * Bit(b, 1) + 4 * Bit(a, 2) * Bit(b, 2)
  + 8 * Bit(a, 3) * Bit(b, 3) + 16 * Bit(a, 4) * Bit(b, 4) + 32 * Bit(a, 5) * Bit(b, 5)
  + 64 * Bit(a, 6) * Bit(b, 6) + 128 * Bit(a, 7) * Bit(b, 7)

BitOr(a, b) == a + b - BitAnd(a, b)

\* a & ~m on a byte
BitClear(a, m) == a - BitAnd(a, m)

----------------------------------------------------------------------------
(* Status codes (Err), driver and engine states *)

\* Config{}: the defaults of the configuration record
DefaultConfig ==
  [callbacks |-> FALSE, i2cAddress |-> I2C_ADDR_7BIT, i2cTimeoutMs |-> 50,
   backupMode |-> "Level", enableEepromWrites |-> FALSE,
   eepromTimeoutMs |-> 200, offlineThreshold |-> 5]

\* EepromOp{}: the idle engine with an empty ring
EepromOpInit ==
  [state |-> "Idle", reg |-> 0, value |-> 0, control1 |-> 0,
   control1Valid |-> FALSE, countPending |-> FALSE, deadlineMs |-> U32Of(0),
   queue |-> [i \in 0..(kEepromQueueSize - 1) |-> [reg |-> 0, value |-> 0]],
   queueHead |-> 0, queueTail |-> 0, queueCount |-> 0]

\* The RV3032 object as constructed
RtcInit ==
  [config |-> DefaultConfig, initialized |-> FALSE, beginInProgress |-> FALSE,
   driverState |-> "UNINIT", lastOkMs |-> U32Of(0), lastError |-> "OK",
   lastErrorMs |-> U32Of(0), consecutiveFailures |-> 0,
   totalFailures |-> U32Of(0), totalSuccess |-> U32Of(0),
   eeprom |-> EepromOpInit, eepromLastStatus |-> "OK",
   eepromWriteCount |-> U32Of(0), eepromWriteFailures |-> U32Of(0)]

----------------------------------------------------------------------------
(* The device and the environment of one call *)

\* millis() when the driver object is constructed: one below the 32-bit wrap
StartMs == <<W16 - 1, W16 - 1>>

\* Seven time registers as read in one burst, seconds first
GoodTime == <<0, 0, 0, 6, 1, 1, 0>>

NoFault ==
  [at |-> 0, err |-> "I2C_ERROR", busy |-> FALSE, failed |-> FALSE, time |-> GoodTime]

\* The plans in which at most one of the first n transport invocations fails:
\* any of them with a bus error, the first one also with a timeout
Plans(n) ==
  {NoFault, [NoFault EXCEPT !.at = 1, !.err = "TIMEOUT"]}
  \cup {[NoFault EXCEPT !.at = k] : k \in 1..n}

\* What a read of len bytes starting at reg returns: a byte for len = 1, the
\* bytes in register order otherwise.  The time registers and the EEPROM flags
\* change on their own: the plan says what they read as.
DevReadByte(b, reg, p) ==
  IF reg \in DOMAIN b THEN b[reg]
  ELSE IF reg = REG_TEMP_LSB
       THEN (IF p.busy THEN Pow2(EEPROM_BUSY_BIT) ELSE 0)
            + (IF p.failed THEN Pow2(EEPROM_ERROR_BIT) ELSE 0)
       ELSE 0

DevRead(b, reg, len, p) ==
  IF len = 1 THEN DevReadByte(b, reg, p)
  ELSE IF reg = REG_SECONDS THEN p.time
  ELSE [i \in 1..len |-> DevReadByte(b, reg + i - 1, p)]

\* data is written to consecutive registers starting at reg
DevWrite(b, reg, data) ==
  [r \in DOMAIN b |->
     IF r >= reg /\ r < reg + Len(data) THEN data[r - reg + 1] ELSE b[r]]

\* AlarmConfig{}: the caller's output object before a call writes it
AlarmConfigInit ==
  [minute |-> 0, hour |-> 0, date |-> 0,
   matchMinute |-> FALSE, matchHour |-> FALSE, matchDate |-> FALSE]

\* The context a call starts with
Ctx ==
  [rtc |-> rtc, bus |-> bus, tx |-> 0, st |-> "OK", val |-> 0,
   log |-> <<>>, wire |-> <<>>, ev |-> <<>>, out |-> AlarmConfigInit]

Ret(c, code) == [c EXCEPT !.st = code]

\* The status the next transport invocation returns under plan p
TxStatus(c, p) == IF p.at = c.tx + 1 THEN p.err ELSE "OK"

----------------------------------------------------------------------------
(* Health tracker *)

\* Variant: the offline threshold is never applied
UpdateHealth_NoOffline(r, st) ==
  LET isSuccess == st = "OK" \/ st = "IN_PROGRESS" IN
  IF isSuccess
  THEN [r EXCEPT
          !.lastOkMs = now,
          !.consecutiveFailures = 0,
          !.totalSuccess = U32Inc(@),
          !.driverState =
             IF r.initialized /\ @ \in {"UNINIT", "DEGRADED", "OFFLINE"}
             THEN "READY" ELSE @]
  ELSE LET cf == IF r.consecutiveFailures < UINT8_MAX
                 THEN r.consecutiveFailures + 1 ELSE r.consecutiveFailures
       IN [r EXCEPT
             !.lastError = st,
             !.lastErrorMs = now,
             !.consecutiveFailures = cf,
             !.totalFailures = U32Inc(@),
             !.driverState =
                IF r.initialized /\ cf = 1 /\ @ = "READY" THEN "DEGRADED" ELSE @]

\* Variant: a success leaves the consecutive-failure count and the state alone
UpdateHealth_KeepCount(r, st) ==
  LET isSuccess == st = "OK" \/ st = "IN_PROGRESS" IN
  IF isSuccess
  THEN [r EXCEPT !.lastOkMs = now, !.totalSuccess = U32Inc(@)]
  ELSE LET cf == IF r.consecutiveFailures < UINT8_MAX
                 THEN r.consecutiveFailures + 1 ELSE r.consecutiveFailures
       IN [r EXCEPT
             !.lastError = st,
             !.lastErrorMs = now,
             !.consecutiveFailures = cf,
             !.totalFailures = U32Inc(@),
             !.driverState =
                IF r.initialized /\ cf >= r.config.offlineThreshold THEN "OFFLINE"
                ELSE IF r.initialized /\ cf = 1 /\ @ = "READY" THEN "DEGRADED"
                ELSE @]

UpdateHealth(r, st) ==
  LET isSuccess == st = "OK" \/ st = "IN_PROGRESS" IN
  IF isSuccess
  THEN [r EXCEPT
          !.lastOkMs = now,
          !.consecutiveFailures = 0,
          !.totalSuccess = U32Inc(@),
          !.driverState =
             IF r.initialized /\ @ \in {"UNINIT", "DEGRADED", "OFFLINE"}
             THEN "READY" ELSE @]
  ELSE LET cf == IF r.consecutiveFailures < UINT8_MAX
                 THEN r.consecutiveFailures + 1 ELSE r.consecutiveFailures
           s1 == IF r.initialized /\ cf = 1 /\ r.driverState = "READY"
                 THEN "DEGRADED" ELSE r.driverState
           s2 == IF r.initialized /\ cf >= r.config.offlineThreshold
                 THEN "OFFLINE" ELSE s1
       IN [r EXCEPT
             !.lastError = st,
             !.lastErrorMs = now,
             !.consecutiveFailures = cf,
             !.totalFailures = U32Inc(@),
             !.driverState = s2]

----------------------------------------------------------------------------
(* Transport wrappers *)

I2cWriteReadRaw(c, p, reg, len) ==
  IF ~c.rtc.config.callbacks THEN Ret(c, "INVALID_CONFIG")
  ELSE LET st == TxStatus(c, p) IN
       [c EXCEPT !.tx = @ + 1, !.st = st,
                 !.val = IF st = "OK" THEN DevRead(c.bus, reg, len, p) ELSE @,
                 !.wire = Append(@, [k |-> "R", reg |-> reg, n |-> len, data |-> <<>>])]

\* data is the payload that follows the register address
I2cWriteRaw(c, p, reg, data) ==
  IF ~c.rtc.config.callbacks THEN Ret(c, "INVALID_CONFIG")
  ELSE LET st == TxStatus(c, p) IN
       [c EXCEPT !.tx = @ + 1, !.st = st,
                 !.bus = IF st = "OK" THEN DevWrite(@, reg, data) ELSE @,
                 !.wire = Append(@, [k |-> "W", reg |-> reg, n |-> Len(data),
                                     data |-> data])]

\* Variant: the status is handed to _updateHealth twice
Tracked_Twice(c) ==
  [c EXCEPT !.rtc = UpdateHealth(UpdateHealth(@, c.st), c.st),
            !.log = Append(@, c.st = "OK" \/ c.st = "IN_PROGRESS")]

\* _updateHealth applied to the status the raw call returned
Tracked(c) ==
  [c EXCEPT !.rtc = UpdateHealth(@, c.st),
            !.log = Append(@, c.st = "OK" \/ c.st = "IN_PROGRESS")]

I2cWriteReadTracked(c, p, reg, len) == Tracked(I2cWriteReadRaw(c, p, reg, len))

I2cWriteTracked(c, p, reg, data) == Tracked(I2cWriteRaw(c, p, reg, data))

ReadRegisterRaw(c, p, reg) == I2cWriteReadRaw(c, p, reg, 1)

\* Variant: a burst read that bypasses the health tracker
ReadRegs_Raw(c, p, reg, len) ==
  IF ~c.rtc.initialized /\ ~c.rtc.beginInProgress THEN Ret(c, "NOT_INITIALIZED")
  ELSE IF len = 0 \/ len > 255 THEN Ret(c, "INVALID_PARAM")
  ELSE I2cWriteReadRaw(c, p, reg, len)

ReadRegs(c, p, reg, len) ==
  IF ~c.rtc.initialized /\ ~c.rtc.beginInProgress THEN Ret(c, "NOT_INITIALIZED")
  ELSE IF len = 0 \/ len > 255 THEN Ret(c, "INVALID_PARAM")
  ELSE I2cWriteReadTracked(c, p, reg, len)

WriteRegs(c, p, reg, data) ==
  IF ~c.rtc.initialized /\ ~c.rtc.beginInProgress THEN Ret(c, "NOT_INITIALIZED")
  ELSE IF Len(data) = 0 \/ Len(data) > 15 THEN Ret(c, "INVALID_PARAM")
  ELSE I2cWriteTracked(c, p, reg, data)

ReadRegister(c, p, reg) == ReadRegs(c, p, reg, 1)

WriteRegister(c, p, reg, value) == WriteRegs(c, p, reg, <<value>>)

isI2cFailure(st) == st = "I2C_ERROR" \/ st = "TIMEOUT"

\* Variant: the deadline has passed only once the clock is beyond it
hasDeadlinePassed_Strict(now_ms, deadline_ms) ==
  LET d == U32Sub(now_ms, deadline_ms) IN d[1] < Pow2(15) /\ d # U32Of(0)

\* Variant: the deadline is reported as passed 50 ms late
hasDeadlinePassed_Late(now_ms, deadline_ms) ==
  U32Sub(now_ms, U32Add(deadline_ms, kEepromPreCmdTimeoutMs))[1] < Pow2(15)

\* Variant: a deadline never passes
hasDeadlinePassed_Never(now_ms, deadline_ms) == FALSE

hasDeadlinePassed(now_ms, deadline_ms) ==
  U32Sub(now_ms, deadline_ms)[1] < Pow2(15)

mapPresenceError(st) ==
  IF st # "OK" /\ isI2cFailure(st) THEN "DEVICE_NOT_FOUND" ELSE st

----------------------------------------------------------------------------
(* EEPROM persistence engine *)

\* Variant: the ring is taken to be full one entry late
eepromQueuePush_Late(e, reg, value) ==
  IF e.queueCount > kEepromQueueSize THEN [ok |-> FALSE, e |-> e]
  ELSE [ok |-> TRUE,
        e |-> [e EXCEPT !.queue[e.queueHead] = [reg |-> reg, value |-> value],
                        !.queueHead = (e.queueHead + 1) % kEepromQueueSize,
                        !.queueCount = @ + 1]]

eepromQueuePush(e, reg, value) ==
  IF e.queueCount >= kEepromQueueSize THEN [ok |-> FALSE, e |-> e]
  ELSE [ok |-> TRUE,
        e |-> [e EXCEPT !.queue[e.queueHead] = [reg |-> reg, value |-> value],
                        !.queueHead = (e.queueHead + 1) % kEepromQueueSize,
                        !.queueCount = @ + 1]]

\* Variant: the newest entry is taken instead of the oldest
eepromQueuePop_Newest(e) ==
  IF e.queueCount = 0 THEN [ok |-> FALSE, e |-> e, reg |-> 0, value |-> 0]
  ELSE LET i == (e.queueHead + kEepromQueueSize - 1) % kEepromQueueSize IN
       [ok |-> TRUE,
        reg |-> e.queue[i].reg,
        value |-> e.queue[i].value,
        e |-> [e EXCEPT !.queueHead = i, !.queueCount = @ - 1]]

eepromQueuePop(e) ==
  IF e.queueCount = 0 THEN [ok |-> FALSE, e |-> e, reg |-> 0, value |-> 0]
  ELSE [ok |-> TRUE,
        reg |-> e.queue[e.queueTail].reg,
        value |-> e.queue[e.queueTail].value,
        e |-> [e EXCEPT !.queueTail = (e.queueTail + 1) % kEepromQueueSize,
                        !.queueCount = @ - 1]]

isEepromBusy(r) == r.eeprom.state # "Idle" \/ r.eeprom.queueCount > 0

\* Variant: the status of the write in flight is reported while it runs
getEepromStatus_Running(r) ==
  IF r.eeprom.queueCount > 0 THEN "IN_PROGRESS" ELSE r.eepromLastStatus

getEepromStatus(r) ==
  IF isEepromBusy(r) THEN "IN_PROGRESS" ELSE r.eepromLastStatus

\* Variant: the status recorded for the previous write is kept
startEepromUpdate_KeepStatus(c, reg, value, now_ms) ==
  [c EXCEPT !.rtc.eeprom.reg = reg,
            !.rtc.eeprom.value = value,
            !.rtc.eeprom.control1Valid = FALSE,
            !.rtc.eeprom.countPending = TRUE,
            !.rtc.eeprom.deadlineMs = U32Add(now_ms, kEepromPreCmdTimeoutMs),
            !.rtc.eeprom.state = "ReadControl1",
            !.st = "IN_PROGRESS",
            !.ev = Append(@, [k |-> "start", reg |-> reg, value |-> value])]

\* Returns IN_PROGRESS
startEepromUpdate(c, reg, value, now_ms) ==
  [c EXCEPT !.rtc.eeprom.reg = reg,
            !.rtc.eeprom.value = value,
            !.rtc.eeprom.control1Valid = FALSE,
            !.rtc.eeprom.countPending = TRUE,
            !.rtc.eeprom.deadlineMs = U32Add(now_ms, kEepromPreCmdTimeoutMs),
            !.rtc.eeprom.state = "ReadControl1",
            !.rtc.eepromLastStatus = "OK",
            !.st = "IN_PROGRESS",
            !.ev = Append(@, [k |-> "start", reg |-> reg, value |-> value])]

\* Variant: every accepted write goes through the ring
queueEepromUpdate_AlwaysPush(c, reg, value, now_ms) ==
  LET r == eepromQueuePush(c.rtc.eeprom, reg, value) IN
  IF ~r.ok THEN Ret(c, "QUEUE_FULL")
  ELSE [c EXCEPT !.rtc.eeprom = r.e, !.st = "IN_PROGRESS",
                 !.ev = Append(@, [k |-> "accept", reg |-> reg, value |-> value])]

queueEepromUpdate(c, reg, value, now_ms) ==
  LET e == c.rtc.eeprom IN
  IF e.state # "Idle" \/ e.queueCount > 0
  THEN LET r == eepromQueuePush(e, reg, value) IN
       IF ~r.ok THEN Ret(c, "QUEUE_FULL")
       ELSE [c EXCEPT !.rtc.eeprom = r.e, !.st = "IN_PROGRESS",
                      !.ev = Append(@, [k |-> "accept", reg |-> reg, value |-> value])]
  ELSE startEepromUpdate(
         [c EXCEPT !.ev = Append(@, [k |-> "accept", reg |-> reg, value |-> value])],
         reg, value, now_ms)

\* Variant: the write is handed to the engine whether or not EEPROM writes
\* are enabled
writeEepromRegister_AlwaysQueue(c, p, reg, value) ==
  LET c1 == ReadRegister(c, p, reg) IN
  IF c1.st # "OK" THEN c1
  ELSE IF c1.val = value THEN Ret(c1, "OK")
  ELSE LET c2 == WriteRegister(c1, p, reg, value) IN
       IF c2.st # "OK" THEN c2 ELSE queueEepromUpdate(c2, reg, value, now)

\* Variant: the value is written and handed to the engine even when the
\* register already holds it
writeEepromRegister_NoCompare(c, p, reg, value) ==
  LET c1 == ReadRegister(c, p, reg) IN
  IF c1.st # "OK" THEN c1
  ELSE LET c2 == WriteRegister(c1, p, reg, value) IN
       IF c2.st # "OK" THEN c2
       ELSE IF ~c2.rtc.config.enableEepromWrites THEN Ret(c2, "OK")
       ELSE queueEepromUpdate(c2, reg, value, now)

writeEepromRegister(c, p, reg, value) ==
  LET c1 == ReadRegister(c, p, reg) IN
  IF c1.st # "OK" THEN c1
  ELSE IF c1.val = value THEN Ret(c1, "OK")
  ELSE LET c2 == WriteRegister(c1, p, reg, value) IN
       IF c2.st # "OK" THEN c2
       ELSE IF ~c2.rtc.config.enableEepromWrites THEN Ret(c2, "OK")
       ELSE queueEepromUpdate(c2, reg, value, now)

\* Variant: the write that ends does not start the one waiting behind it
finishEepromOperation_NoNext(c, finalStatus, now_ms) ==
  [c EXCEPT !.rtc.eepromLastStatus = finalStatus,
            !.rtc.eeprom.countPending = FALSE,
            !.rtc.eeprom.control1Valid = FALSE,
            !.rtc.eeprom.state = "Idle",
            !.ev = Append(@, [k |-> "finish", reg |-> c.rtc.eeprom.reg,
                              value |-> c.rtc.eeprom.value, st |-> finalStatus])]

\* The lambda of processEeprom: record the result, go idle, start the next write
finishEepromOperation(c, finalStatus, now_ms) ==
  LET pending == c.rtc.eeprom.countPending
      c1 == [c EXCEPT !.rtc.eepromLastStatus = finalStatus,
                      !.rtc.eepromWriteCount =
                          IF pending /\ finalStatus = "OK" THEN U32Add(@, 1) ELSE @,
                      !.rtc.eepromWriteFailures =
                          IF pending /\ finalStatus # "OK" THEN U32Add(@, 1) ELSE @,
                      !.rtc.eeprom.countPending = FALSE,
                      !.rtc.eeprom.control1Valid = FALSE,
                      !.rtc.eeprom.state = "Idle",
                      !.ev = Append(@, [k |-> "finish", reg |-> c.rtc.eeprom.reg,
                                        value |-> c.rtc.eeprom.value,
                                        st |-> finalStatus])]
      r == eepromQueuePop(c1.rtc.eeprom)
  IN IF r.ok
     THEN startEepromUpdate([c1 EXCEPT !.rtc.eeprom = r.e], r.reg, r.value, now_ms)
     ELSE c1

\* Variant: a failed step ends the write on the spot
ToRestore_GoIdle(c, st) ==
  [c EXCEPT !.rtc.eepromLastStatus = st, !.rtc.eeprom.state = "Idle"]

\* A failed step: keep the error and go to RestoreControl1
ToRestore(c, st) ==
  [c EXCEPT !.rtc.eepromLastStatus = st, !.rtc.eeprom.state = "RestoreControl1"]

\* Variant: a failure of the restoring write replaces an earlier error
restoreFinalStatus_LastWins(finalStatus, st) ==
  IF st # "OK" THEN st ELSE finalStatus

\* RestoreControl1: the result of the write, given the result so far and the
\* status of the restoring write
restoreFinalStatus(finalStatus, st) ==
  IF st # "OK" /\ finalStatus = "OK" THEN st ELSE finalStatus

\* Variant: the flags are looked for in the status register
readEepromFlags_Status(c, p) == ReadRegister(c, p, REG_STATUS)

readEepromFlags(c, p) == ReadRegister(c, p, REG_TEMP_LSB)

processEeprom(c, p, now_ms) ==
  LET e == c.rtc.eeprom IN
  IF ~c.rtc.config.enableEepromWrites
  THEN [c EXCEPT !.rtc.eeprom.state = "Idle", !.rtc.eeprom.queueHead = 0,
                 !.rtc.eeprom.queueTail = 0, !.rtc.eeprom.queueCount = 0,
                 !.ev = Append(@, [k |-> "drop", reg |-> 0, value |-> 0])]
  ELSE IF e.state = "Idle"
  THEN LET r == eepromQueuePop(e) IN
       IF r.ok
       THEN startEepromUpdate([c EXCEPT !.rtc.eeprom = r.e], r.reg, r.value, now_ms)
       ELSE c
  ELSE IF e.state = "ReadControl1"
  THEN LET c1 == ReadRegister(c, p, REG_CONTROL1) IN
       IF c1.st # "OK" THEN finishEepromOperation(c1, c1.st, now_ms)
       ELSE [c1 EXCEPT !.rtc.eeprom.control1 = c1.val,
                       !.rtc.eeprom.control1Valid = TRUE,
                       !.rtc.eeprom.state = "EnableEerd"]
  ELSE IF e.state = "EnableEerd"
  THEN LET c1 == WriteRegister(c, p, REG_CONTROL1,
                               BitOr(e.control1, Pow2(CTRL1_EERD_BIT))) IN
       IF c1.st # "OK" THEN ToRestore(c1, c1.st)
       ELSE [c1 EXCEPT !.rtc.eeprom.state = "WriteAddr"]
  ELSE IF e.state = "WriteAddr"
  THEN LET c1 == WriteRegister(c, p, REG_EE_ADDRESS, e.reg) IN
       IF c1.st # "OK" THEN ToRestore(c1, c1.st)
       ELSE [c1 EXCEPT !.rtc.eeprom.state = "WriteData"]
  ELSE IF e.state = "WriteData"
  THEN LET c1 == WriteRegister(c, p, REG_EE_DATA, e.value) IN
       IF c1.st # "OK" THEN ToRestore(c1, c1.st)
       ELSE [c1 EXCEPT !.rtc.eeprom.deadlineMs = U32Add(now_ms, kEepromPreCmdTimeoutMs),
                       !.rtc.eeprom.state = "WaitReadyPreCmd"]
  ELSE IF e.state = "WaitReadyPreCmd"
  THEN LET c1 == readEepromFlags(c, p)
           busy == Bit(c1.val, EEPROM_BUSY_BIT) = 1 IN
       IF c1.st # "OK" THEN ToRestore(c1, c1.st)
       ELSE IF ~busy THEN [c1 EXCEPT !.rtc.eeprom.state = "WriteCmd"]
       ELSE IF hasDeadlinePassed(now_ms, e.deadlineMs) THEN ToRestore(c1, "TIMEOUT")
       ELSE c1
  ELSE IF e.state = "WriteCmd"
  THEN LET c1 == WriteRegister(c, p, REG_EE_COMMAND, EEPROM_CMD_UPDATE) IN
       IF c1.st # "OK" THEN ToRestore(c1, c1.st)
       ELSE [c1 EXCEPT !.rtc.eeprom.deadlineMs =
                           U32Add(now_ms, c.rtc.config.eepromTimeoutMs),
                       !.rtc.eeprom.state = "WaitReadyPostCmd"]
  ELSE IF e.state = "WaitReadyPostCmd"
  THEN LET c1 == readEepromFlags(c, p)
           busy == Bit(c1.val, EEPROM_BUSY_BIT) = 1
           failed == Bit(c1.val, EEPROM_ERROR_BIT) = 1 IN
       IF c1.st # "OK" THEN ToRestore(c1, c1.st)
       ELSE IF ~busy
       THEN ToRestore(c1, IF failed THEN "EEPROM_WRITE_FAILED" ELSE "OK")
       ELSE IF hasDeadlinePassed(now_ms, e.deadlineMs) THEN ToRestore(c1, "TIMEOUT")
       ELSE c1
  ELSE \* RestoreControl1
       LET finalStatus == c.rtc.eepromLastStatus IN
       IF e.control1Valid
       THEN LET c1 == WriteRegister(c, p, REG_CONTROL1,
                                    BitClear(e.control1, Pow2(CTRL1_EERD_BIT))) IN
            finishEepromOperation(c1, restoreFinalStatus(finalStatus, c1.st), now_ms)
       ELSE finishEepromOperation(c, finalStatus, now_ms)

----------------------------------------------------------------------------
(* Calendar codec helpers used by the facade *)

isValidBcd(v) == (v % 16 <= 9) /\ ((v \div 16) % 16 <= 9)

bcdToBin(v) == U8((v \div 16) * 10 + (v % 16))

\* Variant: the tens digit is shifted by three bits instead of four
binToBcd_Shift3(v) == IF v > 99 THEN 153 ELSE BitOr((v \div 10) * 8, v % 10)

binToBcd(v) == IF v > 99 THEN 153 ELSE (v \div 10) * 16 + (v % 10)

bcdToBinary(bcd) == bcdToBin(bcd)

binaryToBcd(bin) == binToBcd(bin)

\* Variant: the years divisible by 400 are not leap years
isLeapYear_NoFourHundred(year) == (year % 4 = 0) /\ (year % 100 # 0)

isLeapYear(year) == (year % 4 = 0) /\ ((year % 100 # 0) \/ (year % 400 = 0))

kDays == <<31, 28, 31, 30, 31, 30, 31, 31, 30, 31, 30, 31>>

\* Variant: February has 29 days in every year
daysInMonth_LongFebruary(year, month) ==
  IF month = 2 THEN 29
  ELSE IF month = 0 \/ month > 12 THEN 0
  ELSE kDays[month]

daysInMonth(year, month) ==
  IF month = 2 /\ isLeapYear(year) THEN 29
  ELSE IF month = 0 \/ month > 12 THEN 0
  ELSE kDays[month]

isValidDateTime(t) ==
  /\ ~(t.year < 2000 \/ t.year > 2099)
  /\ ~(t.month < 1 \/ t.month > 12)
  /\ ~(t.day < 1 \/ t.day > daysInMonth(t.year, t.month))
  /\ ~(t.hour > 23 \/ t.minute > 59 \/ t.second > 59)
  /\ ~(t.weekday > 6)

kEpoch2000 == 946684800

kSecondsPerDay == 86400

\* days * 86400 as a uint32_t (86400 = 2^16 + 20864)
U32DaysToSeconds(days) ==
  LET low == days * (kSecondsPerDay - W16) IN
  <<(days + (low \div W16)) % W16, low % W16>>

\* ts / 86400 and ts % 86400 of a uint32_t, by long division on its bytes
U32DivMod(ts, d) ==
  LET t1 == ((ts[1] % d) * 256) + (ts[2] \div 256)
      t2 == ((t1 % d) * 256) + (ts[2] % 256)
  IN [quot |-> ((((ts[1] \div d) * 256) + (t1 \div d)) * 256) + (t2 \div d),
      rem |-> t2 % d]

\* The loop of dateToDays: 365 or 366 days for each year from 1970 up to the
\* year
DaysBeforeYear(year) ==
  365 * Cardinality(1970..(year - 1))
  + Cardinality({y \in 1970..(year - 1) : isLeapYear(y)})

kDaysBeforeMonth == <<0, 31, 59, 90, 120, 151, 181, 212, 243, 273, 304, 334>>

\* Variant: the leap day of the current year is not counted
dateToDays_NoLeapDay(year, month, day) ==
  DaysBeforeYear(year)
  + (IF month >= 1 /\ month <= 12 THEN kDaysBeforeMonth[month] ELSE 0)
  + (IF day > 0 THEN day - 1 ELSE 0)

dateToDays(year, month, day) ==
  DaysBeforeYear(year)
  + (IF month >= 1 /\ month <= 12 THEN kDaysBeforeMonth[month] ELSE 0)
  + (IF month > 2 /\ isLeapYear(year) THEN 1 ELSE 0)
  + (IF day > 0 THEN day - 1 ELSE 0)

\* Variant: the offset of the epoch's weekday is 3 instead of 4
computeWeekday_Offset3(year, month, day) ==
  U8((dateToDays(year, month, day) + 3) % 7)

computeWeekday(year, month, day) == U8((dateToDays(year, month, day) + 4) % 7)

\* The year loop of unixToDate, started at 1970: it stops at the first year
\* that has more days than are left, or at 2100; <<year, days left>>
FindYear(days) ==
  LET stop == {y \in 1970..2099 : days < DaysBeforeYear(y + 1)}
      year == IF stop = {} THEN 2100
              ELSE CHOOSE y \in stop : \A z \in stop : y <= z
  IN <<year, days - DaysBeforeYear(year)>>

RECURSIVE FindMonth(_, _, _)
\* The month loop of unixToDate: <<month, days left in it>>
FindMonth(year, month, days) ==
  IF month > 12 THEN <<month, days>>
  ELSE LET dim == daysInMonth(year, month) IN
       IF days < dim THEN <<month, days>>
       ELSE FindMonth(year, month + 1, days - dim)

NoDateTime ==
  [year |-> 0, month |-> 0, day |-> 0, hour |-> 0, minute |-> 0, second |-> 0,
   weekday |-> 0]

\* Variant: the year found is not checked against 2099
unixToDate_NoUpperYear(ts) ==
  IF U32Lt(ts, U32Of(kEpoch2000)) THEN [ok |-> FALSE, out |-> NoDateTime]
  ELSE LET dm == U32DivMod(ts, kSecondsPerDay)
           y == FindYear(dm.quot)
           year == y[1]
       IN IF year < 2000 THEN [ok |-> FALSE, out |-> NoDateTime]
          ELSE LET m == FindMonth(year, 1, y[2])
                   month == m[1]
                   day == U8(m[2] + 1)
               IN IF month > 12 THEN [ok |-> FALSE, out |-> NoDateTime]
                  ELSE [ok |-> TRUE,
                        out |-> [year |-> year, month |-> month, day |-> day,
                                 hour |-> U8(dm.rem \div 3600),
                                 minute |-> U8((dm.rem % 3600) \div 60),
                                 second |-> U8((dm.rem % 3600) % 60),
                                 weekday |-> computeWeekday(year, month, day)]]

unixToDate(ts) ==
  IF U32Lt(ts, U32Of(kEpoch2000)) THEN [ok |-> FALSE, out |-> NoDateTime]
  ELSE LET dm == U32DivMod(ts, kSecondsPerDay)
           y == FindYear(dm.quot)
           year == y[1]
       IN IF year > 2099 \/ year < 2000 THEN [ok |-> FALSE, out |-> NoDateTime]
          ELSE LET m == FindMonth(year, 1, y[2])
                   month == m[1]
                   day == U8(m[2] + 1)
               IN IF month > 12 THEN [ok |-> FALSE, out |-> NoDateTime]
                  ELSE [ok |-> TRUE,
                        out |-> [year |-> year, month |-> month, day |-> day,
                                 hour |-> U8(dm.rem \div 3600),
                                 minute |-> U8((dm.rem % 3600) \div 60),
                                 second |-> U8((dm.rem % 3600) % 60),
                                 weekday |-> computeWeekday(year, month, day)]]

unixToDateTime(ts) == unixToDate(ts)

dateTimeToUnix(time) ==
  IF ~isValidDateTime(time) THEN [ok |-> FALSE, out |-> U32Of(0)]
  ELSE [ok |-> TRUE,
        out |-> U32Add(U32DaysToSeconds(dateToDays(time.year, time.month, time.day)),
                       time.hour * 3600 + time.minute * 60 + time.second)]

----------------------------------------------------------------------------
(* Lifecycle *)

\* Variant: end() that leaves the persistence engine as it is
end_KeepEngine(c) ==
  [c EXCEPT !.rtc.initialized = FALSE,
            !.rtc.beginInProgress = FALSE,
            !.rtc.driverState = "UNINIT",
            !.rtc.lastOkMs = U32Of(0),
            !.rtc.lastError = "OK",
            !.rtc.lastErrorMs = U32Of(0),
            !.rtc.consecutiveFailures = 0,
            !.rtc.totalFailures = U32Of(0),
            !.rtc.totalSuccess = U32Of(0),
            !.ev = Append(@, [k |-> "reset", reg |-> 0, value |-> 0])]

\* Variant: end() that leaves the driver state as it is
end_KeepState(c) ==
  [c EXCEPT !.rtc.initialized = FALSE,
            !.rtc.beginInProgress = FALSE,
            !.rtc.eeprom = EepromOpInit,
            !.rtc.eepromLastStatus = "OK",
            !.rtc.eepromWriteCount = U32Of(0),
            !.rtc.eepromWriteFailures = U32Of(0),
            !.rtc.lastOkMs = U32Of(0),
            !.rtc.lastError = "OK",
            !.rtc.lastErrorMs = U32Of(0),
            !.rtc.consecutiveFailures = 0,
            !.rtc.totalFailures = U32Of(0),
            !.rtc.totalSuccess = U32Of(0),
            !.ev = Append(@, [k |-> "reset", reg |-> 0, value |-> 0])]

end(c) ==
  [c EXCEPT !.rtc.initialized = FALSE,
            !.rtc.beginInProgress = FALSE,
            !.rtc.driverState = "UNINIT",
            !.rtc.eeprom = EepromOpInit,
            !.rtc.eepromLastStatus = "OK",
            !.rtc.eepromWriteCount = U32Of(0),
            !.rtc.eepromWriteFailures = U32Of(0),
            !.rtc.lastOkMs = U32Of(0),
            !.rtc.lastError = "OK",
            !.rtc.lastErrorMs = U32Of(0),
            !.rtc.consecutiveFailures = 0,
            !.rtc.totalFailures = U32Of(0),
            !.rtc.totalSuccess = U32Of(0),
            !.ev = Append(@, [k |-> "reset", reg |-> 0, value |-> 0])]

\* Variant: the presence read goes through the tracked wrapper
probe_Tracked(c, p) ==
  IF ~c.rtc.initialized /\ ~c.rtc.beginInProgress THEN Ret(c, "NOT_INITIALIZED")
  ELSE IF ~c.rtc.config.callbacks THEN Ret(c, "INVALID_CONFIG")
  ELSE LET c1 == ReadRegister(c, p, REG_STATUS) IN
       Ret(c1, mapPresenceError(c1.st))

probe(c, p) ==
  IF ~c.rtc.initialized /\ ~c.rtc.beginInProgress THEN Ret(c, "NOT_INITIALIZED")
  ELSE IF ~c.rtc.config.callbacks THEN Ret(c, "INVALID_CONFIG")
  ELSE LET c1 == ReadRegisterRaw(c, p, REG_STATUS) IN
       Ret(c1, mapPresenceError(c1.st))

applyConfig(c, p) ==
  LET c1 == ReadRegister(c, p, REG_EEPROM_PMU) IN
  IF c1.st # "OK" THEN c1
  ELSE LET coe == c1.val
           cleared == BitClear(coe, PMU_BSM_MASK)
           newCoe == IF c.rtc.config.backupMode = "Level"
                     THEN BitOr(cleared, PMU_BSM_LEVEL)
                     ELSE IF c.rtc.config.backupMode = "Direct"
                     THEN BitOr(cleared, PMU_BSM_DIRECT)
                     ELSE cleared
       IN IF newCoe # coe
          THEN LET c2 == writeEepromRegister(c1, p, REG_EEPROM_PMU, newCoe) IN
               IF c2.st # "OK" /\ c2.st # "IN_PROGRESS" THEN c2 ELSE Ret(c2, "OK")
          ELSE Ret(c1, "OK")

begin(c, p, config) ==
  LET c0 == IF c.rtc.initialized THEN end(c) ELSE c IN
  IF ~config.callbacks THEN Ret(c0, "INVALID_CONFIG")
  ELSE IF config.i2cAddress # I2C_ADDR_7BIT THEN Ret(c0, "INVALID_CONFIG")
  ELSE IF config.i2cTimeoutMs = 0 THEN Ret(c0, "INVALID_CONFIG")
  ELSE IF config.enableEepromWrites /\ config.eepromTimeoutMs = 0
  THEN Ret(c0, "INVALID_CONFIG")
  ELSE IF config.enableEepromWrites /\ config.i2cTimeoutMs < kEepromPreCmdTimeoutMs
  THEN Ret(c0, "INVALID_CONFIG")
  ELSE
    LET c1 == [c0 EXCEPT
                 !.rtc = [RtcInit EXCEPT
                            !.config = [config EXCEPT !.offlineThreshold =
                                          IF @ < 1 THEN 1 ELSE @],
                            !.beginInProgress = TRUE],
                 !.ev = Append(@, [k |-> "reset", reg |-> 0, value |-> 0])]
        c2 == probe(c1, p)
    IN IF c2.st # "OK" THEN [c2 EXCEPT !.rtc.beginInProgress = FALSE]
       ELSE LET c3 == applyConfig(c2, p) IN
            IF c3.st # "OK" /\ c3.st # "IN_PROGRESS"
            THEN [c3 EXCEPT !.rtc.beginInProgress = FALSE]
            ELSE [c3 EXCEPT !.rtc.initialized = TRUE,
                            !.rtc.driverState = "READY",
                            !.rtc.beginInProgress = FALSE,
                            !.st = "OK"]

\* Variant: one tick runs the engine twice
tick_Twice(c, p, now_ms) ==
  IF ~c.rtc.initialized THEN c
  ELSE processEeprom(processEeprom(c, p, now_ms), p, now_ms)

tick(c, p, now_ms) ==
  IF ~c.rtc.initialized THEN c ELSE processEeprom(c, p, now_ms)

\* Variant: recover() that reports success whatever _applyConfig returned
recover_IgnoreApply(c, p) ==
  IF ~c.rtc.initialized THEN Ret(c, "NOT_INITIALIZED")
  ELSE LET c1 == ReadRegister(c, p, REG_STATUS)
           st == mapPresenceError(c1.st) IN
       IF st # "OK" THEN Ret(c1, st) ELSE Ret(applyConfig(c1, p), "OK")

\* Variant: the presence check of recover() on the raw path
recover_RawPresence(c, p) ==
  IF ~c.rtc.initialized THEN Ret(c, "NOT_INITIALIZED")
  ELSE LET c1 == ReadRegisterRaw(c, p, REG_STATUS)
           st == mapPresenceError(c1.st) IN
       IF st # "OK" THEN Ret(c1, st) ELSE applyConfig(c1, p)

\* Variant: a failed presence read is tried a second time
recover_Retry(c, p) ==
  IF ~c.rtc.initialized THEN Ret(c, "NOT_INITIALIZED")
  ELSE LET c1 == ReadRegister(c, p, REG_STATUS)
           c2 == IF c1.st # "OK" THEN ReadRegister(c1, p, REG_STATUS) ELSE c1
           st == mapPresenceError(c2.st) IN
       IF st # "OK" THEN Ret(c2, st) ELSE applyConfig(c2, p)

recover(c, p) ==
  IF ~c.rtc.initialized THEN Ret(c, "NOT_INITIALIZED")
  ELSE LET c1 == ReadRegister(c, p, REG_STATUS)
           st == mapPresenceError(c1.st) IN
       IF st # "OK" THEN Ret(c1, st) ELSE applyConfig(c1, p)

----------------------------------------------------------------------------
(* Facade operations *)

readTime(c, p) ==
  IF ~c.rtc.initialized THEN Ret(c, "NOT_INITIALIZED")
  ELSE LET c1 == ReadRegs(c, p, REG_SECONDS, 7) IN
  IF c1.st # "OK" THEN c1
  ELSE LET buf == c1.val
           secReg == buf[1] % 128
           minReg == buf[2] % 128
           hourReg == buf[3] % 64
           wdayReg == buf[4] % 8
           dayReg == buf[5] % 64
           monthReg == buf[6] % 32
           yearReg == buf[7]
           out == [second |-> bcdToBin(secReg), minute |-> bcdToBin(minReg),
                   hour |-> bcdToBin(hourReg), weekday |-> wdayReg,
                   day |-> bcdToBin(dayReg), month |-> bcdToBin(monthReg),
                   year |-> 2000 + bcdToBin(yearReg)]
       IN IF ~isValidBcd(secReg) \/ ~isValidBcd(minReg) \/ ~isValidBcd(hourReg)
             \/ ~isValidBcd(dayReg) \/ ~isValidBcd(monthReg) \/ ~isValidBcd(yearReg)
          THEN Ret(c1, "INVALID_DATETIME")
          ELSE IF ~isValidDateTime(out) THEN Ret(c1, "INVALID_DATETIME")
          ELSE Ret(c1, "OK")

setAlarmTime(c, p, minute, hour, date) ==
  IF ~c.rtc.initialized THEN Ret(c, "NOT_INITIALIZED")
  ELSE IF minute > 59 \/ hour > 23 \/ date > 31 \/ date = 0
  THEN Ret(c, "INVALID_PARAM")
  ELSE LET c1 == ReadRegs(c, p, REG_ALARM_MINUTE, 3) IN
  IF c1.st # "OK" THEN c1
  ELSE LET buf == c1.val
           out == <<BitOr(BitAnd(buf[1], 128), binToBcd(minute)),
                    BitOr(BitAnd(buf[2], 128), binToBcd(hour)),
                    BitOr(BitAnd(buf[3], 128), binToBcd(date))>>
       IN WriteRegs(c1, p, REG_ALARM_MINUTE, out)

\* Variant: the decoded fields are not checked against their ranges
getAlarmConfig_NoRangeCheck(c, p) ==
  IF ~c.rtc.initialized THEN Ret(c, "NOT_INITIALIZED")
  ELSE LET c1 == ReadRegs(c, p, REG_ALARM_MINUTE, 3) IN
  IF c1.st # "OK" THEN c1
  ELSE LET minReg == c1.val[1]
           hourReg == c1.val[2]
           dateReg == c1.val[3]
           minRaw == BitAnd(minReg, 127)
           hourRaw == BitAnd(hourReg, 127)
           dateRaw == BitAnd(dateReg, 127)
       IN IF ~isValidBcd(minRaw) \/ ~isValidBcd(hourRaw) \/ ~isValidBcd(dateRaw)
          THEN Ret(c1, "INVALID_PARAM")
          ELSE [c1 EXCEPT !.st = "OK",
                          !.out = [minute |-> bcdToBin(minRaw),
                                   hour |-> bcdToBin(hourRaw),
                                   date |-> bcdToBin(dateRaw),
                                   matchMinute |-> BitAnd(minReg, 128) = 0,
                                   matchHour |-> BitAnd(hourReg, 128) = 0,
                                   matchDate |-> BitAnd(dateReg, 128) = 0]]

getAlarmConfig(c, p) ==
  IF ~c.rtc.initialized THEN Ret(c, "NOT_INITIALIZED")
  ELSE LET c1 == ReadRegs(c, p, REG_ALARM_MINUTE, 3) IN
  IF c1.st # "OK" THEN c1
  ELSE LET minReg == c1.val[1]
           hourReg == c1.val[2]
           dateReg == c1.val[3]
           minRaw == BitAnd(minReg, 127)
           hourRaw == BitAnd(hourReg, 127)
           dateRaw == BitAnd(dateReg, 127)
           minute == bcdToBin(minRaw)
           hour == bcdToBin(hourRaw)
           date == bcdToBin(dateRaw)
       IN IF ~isValidBcd(minRaw) \/ ~isValidBcd(hourRaw) \/ ~isValidBcd(dateRaw)
          THEN Ret(c1, "INVALID_PARAM")
          ELSE IF minute > 59 \/ hour > 23 \/ date = 0 \/ date > 31
          THEN Ret(c1, "INVALID_PARAM")
          ELSE [c1 EXCEPT !.st = "OK",
                          !.out = [minute |-> minute, hour |-> hour, date |-> date,
                                   matchMinute |-> BitAnd(minReg, 128) = 0,
                                   matchHour |-> BitAnd(hourReg, 128) = 0,
                                   matchDate |-> BitAnd(dateReg, 128) = 0]]

\* Variant: setTimer() without the range check of ticks
setTimer_AnyTicks(c, p, ticks, freq, enable) ==
  IF ~c.rtc.initialized THEN Ret(c, "NOT_INITIALIZED")
  ELSE IF freq > kMaxTimerFrequency THEN Ret(c, "INVALID_PARAM")
  ELSE LET c1 == ReadRegister(c, p, REG_CONTROL1) IN
  IF c1.st # "OK" THEN c1
  ELSE LET c2 == ReadRegister(c1, p, REG_TIMER_HIGH) IN
       IF c2.st # "OK" THEN c2
       ELSE WriteRegister(c2, p, REG_TIMER_LOW, ticks % 256)

\* Variant: the whole TIMER_HIGH register is overwritten
setTimer_ClobberHigh(c, p, ticks, freq, enable) ==
  IF ~c.rtc.initialized THEN Ret(c, "NOT_INITIALIZED")
  ELSE IF ticks > 4095 THEN Ret(c, "INVALID_PARAM")
  ELSE IF freq > kMaxTimerFrequency THEN Ret(c, "INVALID_PARAM")
  ELSE LET c1 == ReadRegister(c, p, REG_CONTROL1) IN
  IF c1.st # "OK" THEN c1
  ELSE LET cleared == BitClear(c1.val, BitOr(CTRL1_TD_MASK, Pow2(CTRL1_TE_BIT)))
           withTd == BitOr(cleared, BitAnd(freq, CTRL1_TD_MASK))
           control1 == IF enable THEN BitOr(withTd, Pow2(CTRL1_TE_BIT)) ELSE withTd
           c2 == ReadRegister(c1, p, REG_TIMER_HIGH)
       IN IF c2.st # "OK" THEN c2
          ELSE LET c3 == WriteRegister(c2, p, REG_CONTROL1, control1)
               IN IF c3.st # "OK" THEN c3
                  ELSE LET c4 == WriteRegister(c3, p, REG_TIMER_LOW, ticks % 256) IN
                       IF c4.st # "OK" THEN c4
                       ELSE WriteRegister(c4, p, REG_TIMER_HIGH, (ticks \div 256) % 16)

setTimer(c, p, ticks, freq, enable) ==
  IF ~c.rtc.initialized THEN Ret(c, "NOT_INITIALIZED")
  ELSE IF ticks > 4095 THEN Ret(c, "INVALID_PARAM")
  ELSE IF freq > kMaxTimerFrequency THEN Ret(c, "INVALID_PARAM")
  ELSE LET c1 == ReadRegister(c, p, REG_CONTROL1) IN
  IF c1.st # "OK" THEN c1
  ELSE LET cleared == BitClear(c1.val, BitOr(CTRL1_TD_MASK, Pow2(CTRL1_TE_BIT)))
           withTd == BitOr(cleared, BitAnd(freq, CTRL1_TD_MASK))
           control1 == IF enable THEN BitOr(withTd, Pow2(CTRL1_TE_BIT)) ELSE withTd
           low == ticks % 256
           c2 == ReadRegister(c1, p, REG_TIMER_HIGH)
       IN IF c2.st # "OK" THEN c2
          ELSE LET high == BitOr(BitAnd(c2.val, 240), (ticks \div 256) % 16)
                   c3 == WriteRegister(c2, p, REG_CONTROL1, control1)
               IN IF c3.st # "OK" THEN c3
                  ELSE LET c4 == WriteRegister(c3, p, REG_TIMER_LOW, low) IN
                       IF c4.st # "OK" THEN c4
                       ELSE WriteRegister(c4, p, REG_TIMER_HIGH, high)

setClkoutEnabled(c, p, enabled) ==
  IF ~c.rtc.initialized THEN Ret(c, "NOT_INITIALIZED")
  ELSE LET c1 == ReadRegister(c, p, REG_EEPROM_PMU) IN
  IF c1.st # "OK" THEN c1
  ELSE LET newCoe == IF enabled THEN BitClear(c1.val, PMU_CLKOUT_DISABLE)
                     ELSE BitOr(c1.val, PMU_CLKOUT_DISABLE)
       IN writeEepromRegister(c1, p, REG_EEPROM_PMU, newCoe)

setClkoutFrequency(c, p, freq) ==
  IF ~c.rtc.initialized THEN Ret(c, "NOT_INITIALIZED")
  ELSE IF freq > kMaxClkoutFrequency THEN Ret(c, "INVALID_PARAM")
  ELSE LET c1 == ReadRegister(c, p, REG_EEPROM_CLKOUT2) IN
  IF c1.st # "OK" THEN c1
  ELSE LET newClkout == BitOr(BitClear(c1.val, CLKOUT_FREQ_MASK),
                              BitAnd(U8(freq * Pow2(CLKOUT_FREQ_SHIFT)), CLKOUT_FREQ_MASK))
       IN writeEepromRegister(c1, p, REG_EEPROM_CLKOUT2, newClkout)

setEviDebounce(c, p, debounce) ==
  IF ~c.rtc.initialized THEN Ret(c, "NOT_INITIALIZED")
  ELSE IF debounce > kMaxEviDebounce THEN Ret(c, "INVALID_PARAM")
  ELSE LET c1 == ReadRegister(c, p, REG_EVI_CONTROL) IN
  IF c1.st # "OK" THEN c1
  ELSE LET newControl == BitOr(BitClear(c1.val, EVI_DB_MASK),
                               BitAnd(U8(debounce * Pow2(EVI_DB_SHIFT)), EVI_DB_MASK))
       IN WriteRegister(c1, p, REG_EVI_CONTROL, newControl)

----------------------------------------------------------------------------
(* Inputs of the calls *)

BaseConfig ==
  [callbacks |-> TRUE, i2cAddress |-> I2C_ADDR_7BIT, i2cTimeoutMs |-> 50,
   backupMode |-> "Level", enableEepromWrites |-> FALSE,
   eepromTimeoutMs |-> 200, offlineThreshold |-> 5]

\* Configurations begin() accepts
ValidConfigs ==
  {[BaseConfig EXCEPT !.offlineThreshold = 0],
   [BaseConfig EXCEPT !.offlineThreshold = 3],
   [BaseConfig EXCEPT !.offlineThreshold = 3, !.backupMode = "Direct"],
   [BaseConfig EXCEPT !.offlineThreshold = 1, !.enableEepromWrites = TRUE],
   [BaseConfig EXCEPT !.offlineThreshold = 3, !.enableEepromWrites = TRUE,
                      !.backupMode = "Direct"]}

\* One configuration for each validation of begin()
InvalidConfigs ==
  {[BaseConfig EXCEPT !.callbacks = FALSE],
   [BaseConfig EXCEPT !.i2cAddress = 82],
   [BaseConfig EXCEPT !.i2cTimeoutMs = 0],
   [BaseConfig EXCEPT !.enableEepromWrites = TRUE, !.eepromTimeoutMs = 0],
   [BaseConfig EXCEPT !.enableEepromWrites = TRUE, !.i2cTimeoutMs = 49]}

Configs == ValidConfigs \cup InvalidConfigs

\* Time registers: a valid time, a seconds byte that is no BCD (0x0A), and
\* valid BCD that is no date (30 February 2021)
TimePayloads == {GoodTime, <<10, 0, 0, 6, 1, 1, 0>>, <<0, 0, 0, 0, 48, 2, 33>>}

\* setAlarmTime(minute, hour, date): one in range, then each field out of range
AlarmInputs == {<<30, 12, 15>>, <<60, 12, 15>>, <<30, 24, 15>>, <<30, 12, 0>>, <<30, 12, 32>>}

\* What the three alarm registers may hold when the driver starts: 0x7A in
\* the minute register (the unit test), an alarm of 12:30 on the 15th with
\* the match bits clear and set, 0xFA (bit 7 over a bad digit), minute 60,
\* hour 24, a bad digit in the hour and in the date, date 0 and date 32
AlarmPayloads ==
  {<<122, 18, 21>>, <<48, 18, 21>>, <<176, 146, 149>>, <<250, 18, 21>>,
   <<96, 18, 21>>, <<48, 36, 21>>, <<48, 27, 21>>, <<48, 18, 15>>,
   <<48, 18, 0>>, <<48, 18, 50>>}

\* setTimer(ticks, freq): in range (0x456 and the largest count), 4096
\* ticks, a frequency past the enum
TimerInputs == {<<1110, 2>>, <<4095, 2>>, <<4096, 2>>, <<1, 9>>}

\* setClkoutFrequency(freq)
ClkoutFrequencyInputs == {1, 7}

\* setEviDebounce(debounce)
EviDebounceInputs == {2, 5}

\* The device after power-up, as the unit tests' bus has it
BusInit ==
  [r \in {REG_ALARM_MINUTE, REG_ALARM_MINUTE + 1, REG_ALARM_MINUTE + 2,
          REG_TIMER_LOW, REG_TIMER_HIGH, REG_CONTROL1, REG_EVI_CONTROL,
          REG_EE_ADDRESS, REG_EE_DATA, REG_EE_COMMAND,
          REG_EEPROM_PMU, REG_EEPROM_CLKOUT2} |->
     IF r = REG_EEPROM_PMU THEN PMU_BSM_LEVEL
     ELSE IF r = REG_TIMER_HIGH THEN 160
     ELSE 0]

----------------------------------------------------------------------------
(* History of accepted writes *)

RECURSIVE Replay(_, _)
\* The accepted-and-not-started writes after the events evs, and whether every
\* write that was started was the oldest of them
Replay(q, evs) ==
  IF evs = <<>> THEN [q |-> q, ok |-> TRUE]
  ELSE LET e == Head(evs)
           w == [reg |-> e.reg, value |-> e.value]
       IN IF e.k = "accept" THEN Replay(Append(q, w), Tail(evs))
          ELSE IF e.k = "start"
          THEN IF q # <<>> /\ Head(q) = w
               THEN Replay(Tail(q), Tail(evs))
               ELSE [q |-> q, ok |-> FALSE]
          ELSE IF e.k \in {"reset", "drop"} THEN Replay(<<>>, Tail(evs))
          ELSE Replay(q, Tail(evs))

----------------------------------------------------------------------------
(* Actions: one public call each *)

Commit(op, c) ==
  /\ rtc' = c.rtc
  /\ bus' = c.bus
  /\ call' = [op |-> op, st |-> c.st, tx |-> c.tx, log |-> c.log,
              wire |-> c.wire, ev |-> c.ev, out |-> c.out]
  /\ fifo' = Replay(fifo, c.ev).q
  /\ UNCHANGED now

\* Tracked transactions counted so far (the counters stay far below 2^16 here)
TrackedCount == rtc.totalSuccess[2] + rtc.totalFailures[2]

Budget == TrackedCount < MaxTracked

Init ==
  /\ rtc = RtcInit
  /\ bus = BusInit
  /\ now = StartMs
  /\ call = [op |-> "none", st |-> "OK", tx |-> 0, log |-> <<>>,
             wire |-> <<>>, ev |-> <<>>, out |-> AlarmConfigInit]
  /\ fifo = <<>>

\* begin(config) with config drawn from cfgs
BeginWith(cfgs) ==
  \E config \in cfgs :
    \E p \in IF config \in ValidConfigs THEN Plans(4) ELSE {NoFault} :
      Commit("begin", begin(Ctx, p, config))

Begin ==
  /\ Budget
  /\ BeginWith(Configs)

BeginParam ==
  /\ Budget
  /\ BeginWith({BaseConfig} \cup InvalidConfigs)

End ==
  \E c \in {end(Ctx)} : Commit("end", Ret(c, "VOID"))

Tick ==
  /\ Budget
  /\ \E p \in Plans(1), busy \in BOOLEAN, failed \in BOOLEAN :
       Commit("tick",
              Ret(tick(Ctx, [p EXCEPT !.busy = busy, !.failed = failed], now), "VOID"))

Probe ==
  \E p \in Plans(1) : Commit("probe", probe(Ctx, p))

Recover ==
  /\ Budget
  /\ \E p \in Plans(4) : Commit("recover", recover(Ctx, p))

ReadTime ==
  /\ Budget
  /\ \E p \in Plans(1), t \in TimePayloads :
       Commit("readTime", readTime(Ctx, [p EXCEPT !.time = t]))

SetAlarmTime ==
  /\ Budget
  /\ \E p \in Plans(2), a \in AlarmInputs :
       Commit("setAlarmTime", setAlarmTime(Ctx, p, a[1], a[2], a[3]))

SetTimer ==
  /\ Budget
  /\ \E p \in Plans(5), a \in TimerInputs :
       Commit("setTimer", setTimer(Ctx, p, a[1], a[2], TRUE))

SetClkoutEnabled ==
  /\ Budget
  /\ \E p \in Plans(3), enabled \in BOOLEAN :
       Commit("setClkoutEnabled", setClkoutEnabled(Ctx, p, enabled))

SetClkoutFrequency ==
  /\ Budget
  /\ \E p \in Plans(3), freq \in ClkoutFrequencyInputs :
       Commit("setClkoutFrequency", setClkoutFrequency(Ctx, p, freq))

SetEviDebounce ==
  /\ Budget
  /\ \E p \in Plans(2), debounce \in EviDebounceInputs :
       Commit("setEviDebounce", setEviDebounce(Ctx, p, debounce))

GetAlarmConfig ==
  /\ Budget
  /\ \E p \in Plans(1) : Commit("getAlarmConfig", getAlarmConfig(Ctx, p))

\* The alarm registers as the device holds them before the driver starts
PreloadAlarm ==
  /\ call.op = "none"
  /\ \E a \in AlarmPayloads : bus' = DevWrite(bus, REG_ALARM_MINUTE, a)
  /\ UNCHANGED <<rtc, now, call, fifo>>

Elapse ==
  /\ U32Sub(now, StartMs)[1] = 0
  /\ U32Sub(now, StartMs)[2] < MaxElapse
  /\ now' = U32Add(now, 1)
  /\ UNCHANGED <<rtc, bus, call, fifo>>

\* Lifecycle, health tracking and the persistence engine
Next ==
  \/ Begin
  \/ End
  \/ Tick
  \/ Probe
  \/ Recover
  \/ ReadTime
  \/ SetClkoutEnabled
  \/ Elapse

Spec == Init /\ [][Next]_vars

\* The persistence engine with a queue that fills: EEPROM writes enabled
QueueConfig ==
  [BaseConfig EXCEPT !.offlineThreshold = 3, !.enableEepromWrites = TRUE,
                     !.backupMode = "Direct"]

\* A plan may inject a failure only while the failure budget lasts
FaultBudget(p) == p.at = 0 \/ rtc.totalFailures[2] < MaxFailQ

BeginQ ==
  /\ ~rtc.initialized
  /\ \E p \in Plans(4) :
       /\ FaultBudget(p)
       /\ Commit("begin", begin(Ctx, p, QueueConfig))

\* The EEF flag of the status register as the tick reads it: the engine
\* reads it in the wait after the command only
ReadsFailFlag ==
  IF rtc.eeprom.state = "WaitReadyPostCmd" THEN BOOLEAN ELSE {FALSE}

\* The EEPROM is never busy here: each tick moves the engine on
TickQ ==
  /\ TrackedCount < MaxTrackedQ
  /\ \E p \in Plans(1), failed \in ReadsFailFlag :
       /\ FaultBudget(p)
       /\ Commit("tick", Ret(tick(Ctx, [p EXCEPT !.failed = failed], now), "VOID"))

\* Every call asks for a change of the register: CLKOUT is switched over
SetClkoutEnabledQ ==
  /\ TrackedCount < MaxTrackedQ
  /\ \E p \in Plans(3) :
       /\ FaultBudget(p)
       /\ Commit("setClkoutEnabled",
                 setClkoutEnabled(Ctx, p, BitAnd(bus[REG_EEPROM_PMU], PMU_CLKOUT_DISABLE) # 0))

\* ... and the frequency is set once, while the register still holds 0
SetClkoutFrequencyQ ==
  /\ TrackedCount < MaxTrackedQ
  /\ bus[REG_EEPROM_CLKOUT2] = 0
  /\ \E p \in Plans(3) :
       /\ FaultBudget(p)
       /\ Commit("setClkoutFrequency", setClkoutFrequency(Ctx, p, 1))

\* CLKOUT as the volatile register has it
ClkoutIsEnabled == BitAnd(bus[REG_EEPROM_PMU], PMU_CLKOUT_DISABLE) = 0

\* The call is made once more with the same argument, after it was refused
\* with QUEUE_FULL
SetClkoutEnabledAgainQ ==
  /\ TrackedCount < MaxTrackedQ
  /\ call.op = "setClkoutEnabled" /\ call.st = "QUEUE_FULL"
  /\ Commit("setClkoutEnabled", setClkoutEnabled(Ctx, NoFault, ClkoutIsEnabled))

NextQueue ==
  \/ BeginQ
  \/ TickQ
  \/ SetClkoutEnabledQ
  \/ SetClkoutFrequencyQ
  \/ SetClkoutEnabledAgainQ

SpecQueue == Init /\ [][NextQueue]_vars

\* A plan may inject a failure only while the failure budget lasts
FaultBudgetE(p) == p.at = 0 \/ rtc.totalFailures[2] < MaxFailE

\* begin() on a healthy bus: it hands the backup mode to the engine
BeginE ==
  /\ ~rtc.initialized
  /\ Commit("begin", begin(Ctx, NoFault, QueueConfig))

\* A tick on any bus: a transaction may fail, the EEPROM may be busy, the
\* write may have failed
TickE ==
  /\ TrackedCount < MaxTrackedE
  /\ \E p \in Plans(1), busy \in BOOLEAN, failed \in BOOLEAN :
       /\ FaultBudgetE(p)
       /\ Commit("tick",
                 Ret(tick(Ctx, [p EXCEPT !.busy = busy, !.failed = failed], now), "VOID"))

\* CLKOUT is switched over on a healthy bus
SetClkoutEnabledE ==
  /\ TrackedCount < MaxTrackedE
  /\ Commit("setClkoutEnabled",
            setClkoutEnabled(Ctx, NoFault,
                             BitAnd(bus[REG_EEPROM_PMU], PMU_CLKOUT_DISABLE) # 0))

\* The countdown timer is set up, on a healthy bus, while the engine runs
SetTimerE ==
  /\ TrackedCount < MaxTrackedE
  /\ rtc.eeprom.state # "Idle"
  /\ bus[REG_TIMER_LOW] = 0
  /\ Commit("setTimer", setTimer(Ctx, NoFault, 1110, 2, TRUE))

\* The clock jumps ahead by the time the engine waits before the command,
\* or by the time it waits after it
ElapseE ==
  /\ U32Sub(now, StartMs)[1] = 0
  /\ U32Sub(now, StartMs)[2] < MaxElapseE * kEepromPreCmdTimeoutMs
  /\ \E d \in {kEepromPreCmdTimeoutMs, QueueConfig.eepromTimeoutMs} :
       now' = U32Add(now, d)
  /\ UNCHANGED <<rtc, bus, call, fifo>>

\* One persistent write from start to end, with the facade in between
NextEngine ==
  \/ BeginE
  \/ TickE
  \/ SetClkoutEnabledE
  \/ SetTimerE
  \/ ElapseE

SpecEngine == Init /\ [][NextEngine]_vars

\* The engine under a loop that keeps calling tick(): EEPROM writes enabled,
\* the timeout after the command as short as the one before it
LiveConfig == [QueueConfig EXCEPT !.eepromTimeoutMs = kEepromPreCmdTimeoutMs]

BeginL ==
  /\ ~rtc.initialized
  /\ Commit("begin", begin(Ctx, NoFault, LiveConfig))

\* Writes are accepted before the first tick only
SetClkoutEnabledL ==
  /\ rtc.initialized
  /\ now = StartMs
  /\ rtc.eeprom.queueCount < MaxWritesL
  /\ Commit("setClkoutEnabled",
            setClkoutEnabled(Ctx, NoFault,
                             BitAnd(bus[REG_EEPROM_PMU], PMU_CLKOUT_DISABLE) # 0))

\* The loop calls tick() as long as a write is in flight or queued; the
\* clock stops after the ticks that the accepted writes can take
LoopRuns ==
  /\ rtc.initialized
  /\ isEepromBusy(rtc)
  /\ U32Sub(now, StartMs)[1] = 0
  /\ U32Sub(now, StartMs)[2] < TicksPerWriteL * (MaxWritesL + 1) * TickMsL

\* One pass of the loop: tick(millis()), then the time until the next pass.
\* Any transaction may fail, the EEPROM may be busy at every poll, the write
\* may have failed
TickL ==
  /\ LoopRuns
  /\ \E p \in Plans(1), busy \in BOOLEAN, failed \in BOOLEAN :
       \E c \in {Ret(tick(Ctx, [p EXCEPT !.busy = busy, !.failed = failed], now), "VOID")} :
         /\ rtc' = c.rtc
         /\ bus' = c.bus
         /\ call' = [op |-> "tick", st |-> c.st, tx |-> c.tx, log |-> c.log,
                     wire |-> c.wire, ev |-> c.ev, out |-> c.out]
         /\ fifo' = Replay(fifo, c.ev).q
  /\ now' = U32Add(now, TickMsL)

NextLive ==
  \/ BeginL
  \/ SetClkoutEnabledL
  \/ TickL

\* The passes of the loop, seen on the clock alone: the steps that change
\* millis() are the steps of TickL
LoopPass == LoopRuns /\ now' = U32Add(now, TickMsL)

\* The application loop calls tick() again and again and millis() advances
SpecLive == Init /\ [][NextLive]_vars /\ WF_now(LoopPass)

\* A driver that has been running for a long time: begin() has succeeded and
\* the health counters are close to the ends of their ranges
LongRunning(cf, tf, ts) ==
  LET c == begin([rtc |-> RtcInit, bus |-> BusInit, tx |-> 0, st |-> "OK",
                  val |-> 0, log |-> <<>>, wire |-> <<>>, ev |-> <<>>,
                  out |-> AlarmConfigInit], NoFault, BaseConfig) IN
  [c.rtc EXCEPT !.consecutiveFailures = cf,
                !.totalFailures = tf,
                !.totalSuccess = ts,
                !.lastError = "I2C_ERROR",
                !.lastErrorMs = StartMs,
                !.driverState = IF cf = 0 THEN "READY"
                                ELSE IF cf < c.rtc.config.offlineThreshold
                                THEN "DEGRADED" ELSE "OFFLINE"]

InitSaturate ==
  /\ now = StartMs
  /\ bus = BusInit
  /\ fifo = <<>>
  /\ call = [op |-> "none", st |-> "OK", tx |-> 0, log |-> <<>>,
             wire |-> <<>>, ev |-> <<>>, out |-> AlarmConfigInit]
  /\ rtc \in {LongRunning(cf, U32Sub(UINT32_MAX, U32Of(f)), U32Sub(UINT32_MAX, U32Of(k))) :
                cf \in {0} \cup ((UINT8_MAX - MaxBelowS)..UINT8_MAX),
                f \in 0..MaxBelowS, k \in 0..MaxBelowS}

\* The lifetime counters have not been reset since the start
StillCounting ==
  rtc.initialized /\ rtc.totalSuccess[1] = W16 - 1 /\ rtc.totalFailures[1] = W16 - 1

ReadTimeS ==
  /\ StillCounting
  /\ \E p \in Plans(1) : Commit("readTime", readTime(Ctx, p))

ProbeS ==
  /\ StillCounting
  /\ \E p \in Plans(1) : Commit("probe", probe(Ctx, p))

EndS ==
  /\ rtc.initialized
  /\ \E c \in {end(Ctx)} : Commit("end", Ret(c, "VOID"))

BeginS ==
  \E p \in Plans(2) : Commit("begin", begin(Ctx, p, BaseConfig))

NextSaturate ==
  \/ ReadTimeS
  \/ ProbeS
  \/ EndS
  \/ BeginS

\* The health counters at the ends of their ranges
SpecSaturate == InitSaturate /\ [][NextSaturate]_vars

\* begin() at any time, on a bus that does not fail: on a running driver it
\* calls end() first
BeginU ==
  Commit("begin", begin(Ctx, NoFault, QueueConfig))

EndU ==
  /\ rtc.initialized
  /\ \E c \in {end(Ctx)} : Commit("end", Ret(c, "VOID"))

\* A tick on a bus that does not fail; the EEPROM may be busy
TickU ==
  /\ TrackedCount < MaxTrackedU
  /\ \E busy \in BOOLEAN :
       Commit("tick", Ret(tick(Ctx, [NoFault EXCEPT !.busy = busy], now), "VOID"))

SetClkoutEnabledU ==
  /\ TrackedCount < MaxTrackedU
  /\ Commit("setClkoutEnabled",
            setClkoutEnabled(Ctx, NoFault,
                             BitAnd(bus[REG_EEPROM_PMU], PMU_CLKOUT_DISABLE) # 0))

\* The lifecycle calls while a write is in flight, on a bus that does not fail
NextUnlock ==
  \/ BeginU
  \/ EndU
  \/ TickU
  \/ SetClkoutEnabledU

SpecUnlock == Init /\ [][NextUnlock]_vars

\* Parameter validation of the facade
NextParam ==
  \/ BeginParam
  \/ End
  \/ SetAlarmTime
  \/ SetTimer
  \/ SetClkoutFrequency
  \/ SetEviDebounce

SpecParam == Init /\ [][NextParam]_vars

\* The alarm registers, read back and written
NextAlarm ==
  \/ PreloadAlarm
  \/ BeginParam
  \/ End
  \/ GetAlarmConfig
  \/ SetAlarmTime

SpecAlarm == Init /\ [][NextAlarm]_vars

\* Calendar values handed to the conversions: years at and around both ends
\* of the range, a leap year, the year the timestamp passes 2^31, month and
\* day at and past their ends, any weekday field
DateTimeInputs ==
  {[year |-> y, month |-> m, day |-> d, hour |-> hms[1], minute |-> hms[2],
    second |-> hms[3], weekday |-> w] :
     y \in {1999, 2000, 2020, 2021, 2023, 2024, 2038, 2099, 2100},
     m \in {1, 2, 3, 12, 13}, d \in {1, 28, 29, 30, 31},
     hms \in {<<0, 0, 0>>, <<12, 34, 56>>, <<23, 59, 59>>},
     w \in {0, 3, 6, 7}}

\* Every calendar date of the range the RTC counts in
CalendarDates ==
  {[year |-> y, month |-> m, day |-> d] :
     y \in 2000..2099, m \in 1..12, d \in 1..31}

\* A date with its day at and past the end of the month at midnight, for
\* every month of every year of the range
MonthEndInputs ==
  {[year |-> y, month |-> m, day |-> d, hour |-> 0, minute |-> 0,
    second |-> 0, weekday |-> 0] :
     y \in 2000..2099, m \in 1..12, d \in {28, 29, 30, 31, 32, UINT8_MAX}}

\* Timestamps handed to unixToDateTime: 0, the second before 2000, the
\* seconds around 2^31, the last second of 2099, the first of 2100, the
\* largest uint32_t, and the first and last second of the first and last day
\* of every month of 2000, 2038, 2096 and 2099
TimestampInputs ==
  {U32Of(0), U32Of(kEpoch2000 - 1), U32Of(kEpoch2000),
   <<Pow2(15) - 1, W16 - 1>>, <<Pow2(15), 0>>,
   U32Sub(U32DaysToSeconds(dateToDays(2100, 1, 1)), U32Of(1)),
   U32DaysToSeconds(dateToDays(2100, 1, 1)),
   U32Add(U32DaysToSeconds(dateToDays(2100, 1, 1)), kSecondsPerDay), UINT32_MAX}
  \cup UNION {{U32Add(U32DaysToSeconds(dateToDays(y, m, d)), s) :
                  d \in {1, daysInMonth(y, m)}, s \in {0, kSecondsPerDay - 1}} :
                y \in {2000, 2038, 2096, 2099}, m \in 1..12}

ByteInputs == 0..UINT8_MAX

\* The conversions are static: the driver object and the bus play no part
InitCodec ==
  /\ rtc = RtcInit
  /\ bus = BusInit
  /\ now = StartMs
  /\ fifo = <<>>
  /\ call \in {[op |-> "DateTime", t |-> t] : t \in DateTimeInputs \cup MonthEndInputs}
            \cup {[op |-> "byte", v |-> v] : v \in ByteInputs}
            \cup {[op |-> "date", d |-> d] : d \in CalendarDates}
            \cup {[op |-> "timestamp", ts |-> ts] : ts \in TimestampInputs}

DateTimeToUnix ==
  /\ call.op = "DateTime"
  /\ \E r \in {dateTimeToUnix(call.t)} :
       call' = [op |-> "dateTimeToUnix", t |-> call.t, ok |-> r.ok, ts |-> r.out]
  /\ UNCHANGED <<rtc, bus, now, fifo>>

UnixToDateTime ==
  /\ call.op = "dateTimeToUnix"
  /\ call.ok
  /\ \E r \in {unixToDateTime(call.ts)} :
       call' = [op |-> "unixToDateTime", t |-> call.t, ts |-> call.ts,
                ok |-> r.ok, out |-> r.out]
  /\ UNCHANGED <<rtc, bus, now, fifo>>

\* unixToDateTime(ts, out) on a timestamp that comes from anywhere
UnixToDateTimeAt ==
  /\ call.op = "timestamp"
  /\ \E r \in {unixToDateTime(call.ts)} :
       call' = [op |-> "unixToDateTimeAt", ts |-> call.ts, ok |-> r.ok,
                out |-> r.out]
  /\ UNCHANGED <<rtc, bus, now, fifo>>

\* computeWeekday(year, month, day)
ComputeWeekday ==
  /\ call.op = "date"
  /\ call' = [op |-> "computeWeekday", d |-> call.d,
               weekday |-> computeWeekday(call.d.year, call.d.month, call.d.day)]
  /\ UNCHANGED <<rtc, bus, now, fifo>>

BinaryToBcd ==
  /\ call.op = "byte"
  /\ call' = [op |-> "binaryToBcd", v |-> call.v, bcd |-> binaryToBcd(call.v)]
  /\ UNCHANGED <<rtc, bus, now, fifo>>

BcdToBinary ==
  /\ call.op = "binaryToBcd"
  /\ call' = [op |-> "bcdToBinary", v |-> call.v, bcd |-> call.bcd,
               bin |-> bcdToBinary(call.bcd)]
  /\ UNCHANGED <<rtc, bus, now, fifo>>

NextCodec ==
  \/ DateTimeToUnix
  \/ UnixToDateTime
  \/ UnixToDateTimeAt
  \/ ComputeWeekday
  \/ BinaryToBcd
  \/ BcdToBinary

SpecCodec == InitCodec /\ [][NextCodec]_vars

\* Deadlines of the busy waits: values of millis() at which a wait starts
StartTimes ==
  {U32Of(0), U32Of(1000), <<Pow2(15) - 1, W16 - 50>>, <<Pow2(15), 0>>,
   <<W16 - 1, W16 - 200>>, <<W16 - 1, W16 - 50>>, StartMs}

\* Timeouts: 0, the 50 ms before the command, and values of
\* Config::eepromTimeoutMs over the 32-bit range
Timeouts ==
  {U32Of(0), U32Of(1), U32Of(kEepromPreCmdTimeoutMs), U32Of(DefaultConfig.eepromTimeoutMs),
   <<Pow2(15) - 1, W16 - 1>>, <<Pow2(15), 0>>, <<Pow2(15), 1>>, UINT32_MAX}

\* Time between the start of a wait and a tick, modulo 2^32
ElapsedTimes ==
  {U32Of(0), U32Of(1), U32Of(49), U32Of(50), U32Of(51), U32Of(199), U32Of(200),
   <<Pow2(15) - 1, W16 - 1>>, <<Pow2(15), 0>>, <<Pow2(15), 50>>, UINT32_MAX}

InitDeadline ==
  /\ rtc = RtcInit
  /\ bus = BusInit
  /\ now = StartMs
  /\ fifo = <<>>
  /\ call \in {[op |-> "timeout", s |-> st, T |-> T, d |-> d] :
                 st \in StartTimes, T \in Timeouts, d \in ElapsedTimes}

\* A timeout that begin() accepts (the built-in 50 ms are accepted as well)
\* starts a wait at time s: the deadline is s + T
SetDeadline ==
  /\ call.op = "timeout"
  /\ call.T # U32Of(0)
  /\ call' = [op |-> "deadline", s |-> call.s, T |-> call.T, d |-> call.d,
              deadlineMs |-> U32Plus(call.s, call.T)]
  /\ UNCHANGED <<rtc, bus, now, fifo>>

\* The tick at time s + d compares the clock with the deadline
PollDeadline ==
  /\ call.op = "deadline"
  /\ call' = [op |-> "polled", s |-> call.s, T |-> call.T, d |-> call.d,
              deadlineMs |-> call.deadlineMs,
              passed |-> hasDeadlinePassed(U32Plus(call.s, call.d), call.deadlineMs)]
  /\ UNCHANGED <<rtc, bus, now, fifo>>

NextDeadline ==
  \/ SetDeadline
  \/ PollDeadline

SpecDeadline == InitDeadline /\ [][NextDeadline]_vars

----------------------------------------------------------------------------
(* Properties *)

\* The health record of the driver object
HealthOf(r) ==
  <<r.driverState, r.lastOkMs, r.lastError, r.lastErrorMs,
    r.consecutiveFailures, r.totalFailures, r.totalSuccess>>

Last(s) == s[Len(s)]

\* This step is a public call (time stands still during a call)
IsCall == now' = now

\* C1 as stated: after a successful begin() the driver is READY with no
\* consecutive failures; from there a call whose tracked transaction fails
\* leaves it DEGRADED with a count of 1; and a call whose last tracked
\* transaction succeeds leaves it READY with a count of 0.
C1_FirstFailureDegrades ==
  [][IsCall =>
       /\ (call'.op = "begin" /\ call'.st = "OK") =>
            (rtc'.driverState = "READY" /\ rtc'.consecutiveFailures = 0)
       /\ (/\ call'.op # "begin"
           /\ rtc.driverState = "READY" /\ rtc.consecutiveFailures = 0
           /\ call'.log # <<>> /\ ~Last(call'.log)) =>
            (rtc'.driverState = "DEGRADED" /\ rtc'.consecutiveFailures = 1)
       /\ (/\ call'.op # "begin"
           /\ rtc.initialized
           /\ call'.log # <<>> /\ Last(call'.log)) =>
            (rtc'.driverState = "READY" /\ rtc'.consecutiveFailures = 0)]_vars

\* C1 amended: as C1, but the first failure after READY leaves the driver
\* DEGRADED only when the offline threshold is at least 2; with a threshold of
\* 1 (or 0, which begin() raises to 1) it leaves it OFFLINE.  The count is 1
\* in both cases.
C1_FirstFailureByThreshold ==
  [][IsCall =>
       /\ (call'.op = "begin" /\ call'.st = "OK") =>
            (rtc'.driverState = "READY" /\ rtc'.consecutiveFailures = 0)
       /\ (/\ call'.op # "begin"
           /\ rtc.driverState = "READY" /\ rtc.consecutiveFailures = 0
           /\ call'.log # <<>> /\ ~Last(call'.log)) =>
            /\ rtc'.consecutiveFailures = 1
            /\ rtc'.driverState =
                 IF rtc.config.offlineThreshold >= 2 THEN "DEGRADED" ELSE "OFFLINE"
       /\ (/\ call'.op # "begin"
           /\ rtc.initialized
           /\ call'.log # <<>> /\ Last(call'.log)) =>
            (rtc'.driverState = "READY" /\ rtc'.consecutiveFailures = 0)]_vars

\* A call on a driver with threshold 1 recorded its first failure
C1_Witness ==
  /\ call.op \in {"readTime", "recover", "tick", "setClkoutEnabled"}
  /\ call.log # <<>> /\ ~Last(call.log)
  /\ rtc.config.offlineThreshold = 1
  /\ rtc.consecutiveFailures = 1
  /\ rtc.driverState = "OFFLINE"

\* C2: probe() leaves the driver object (health record included) as it was, in
\* every driver state and whatever the bus answered; a presence read that
\* fails on the bus is reported as DEVICE_NOT_FOUND and nowhere else.
C2_ProbeLeavesHealth ==
  [][(IsCall /\ call'.op = "probe") =>
       /\ rtc' = rtc
       /\ HealthOf(rtc') = HealthOf(rtc)
       /\ call'.log = <<>>
       /\ call'.tx <= 1
       /\ (call'.tx = 1) => (call'.st \in {"OK", "DEVICE_NOT_FOUND"})
       /\ (call'.st = "DEVICE_NOT_FOUND") => (call'.tx = 1)]_vars

\* probe() found no device while the driver was DEGRADED
C2_Witness ==
  /\ call.op = "probe"
  /\ call.st = "DEVICE_NOT_FOUND"
  /\ rtc.driverState = "DEGRADED"
  /\ rtc.consecutiveFailures >= 1


\* The ring read from its tail: the writes accepted and not yet started
RingSeq(e) ==
  [i \in 1..e.queueCount |-> e.queue[(e.queueTail + i - 1) % kEepromQueueSize]]

\* The calls that hand a register write to the persistence engine
PersistingOps == {"setClkoutEnabled", "setClkoutFrequency"}

\* C3: the ring never holds more than 8 writes; a write that reaches the
\* engine while 8 are queued is refused with QUEUE_FULL and leaves the engine
\* (the write in flight, its step, the ring, its indices) and the order of the
\* 8 queued writes as they were; QUEUE_FULL is returned in no other case.
C3_QueueBound ==
  [][IsCall =>
       /\ rtc.eeprom.queueCount <= kEepromQueueSize
       /\ rtc'.eeprom.queueCount <= kEepromQueueSize
       /\ (/\ rtc.eeprom.queueCount = kEepromQueueSize
           /\ call'.op \in PersistingOps
           /\ call'.log = <<TRUE, TRUE, TRUE>>) =>
            /\ call'.st = "QUEUE_FULL"
            /\ call'.ev = <<>>
            /\ rtc'.eeprom = rtc.eeprom
            /\ RingSeq(rtc'.eeprom) = RingSeq(rtc.eeprom)
            /\ fifo' = fifo
       /\ (call'.st = "QUEUE_FULL") =>
            (rtc.eeprom.queueCount = kEepromQueueSize /\ rtc.eeprom.state # "Idle")]_vars

\* A write was refused: 8 queued behind the one in flight
C3_Witness ==
  /\ call.op \in PersistingOps
  /\ call.st = "QUEUE_FULL"
  /\ rtc.eeprom.queueCount = kEepromQueueSize
  /\ Len(fifo) = kEepromQueueSize
  /\ rtc.eeprom.state # "Idle"

RECURSIVE Serial(_, _)
\* Whether, in the events evs, a write is started only while none is in
\* flight, starting with one in flight iff busy
Serial(busy, evs) ==
  IF evs = <<>> THEN TRUE
  ELSE LET e == Head(evs) IN
       IF e.k = "start" THEN ~busy /\ Serial(TRUE, Tail(evs))
       ELSE IF e.k \in {"finish", "reset", "drop"} THEN Serial(FALSE, Tail(evs))
       ELSE Serial(busy, Tail(evs))

\* C4: the write that is started is always the oldest write accepted and not
\* yet started, a write is started only when none is in flight (the previous
\* one has finished), and the ring holds exactly the accepted writes that have
\* not been started, oldest first.
C4_FifoOrder ==
  [][IsCall =>
       /\ Replay(fifo, call'.ev).ok
       /\ Serial(rtc.eeprom.state # "Idle", call'.ev)
       /\ RingSeq(rtc.eeprom) = fifo
       /\ RingSeq(rtc'.eeprom) = fifo'
       /\ (rtc'.eeprom.state = "Idle") => (fifo' = <<>>)]_vars

\* A tick finished one write and started the next while two different writes
\* were still waiting behind it
C4_Witness ==
  /\ call.op = "tick"
  /\ Len(call.ev) = 2
  /\ call.ev[1].k = "finish" /\ call.ev[2].k = "start"
  /\ Len(fifo) >= 2
  /\ fifo[1] # fifo[2]
  /\ rtc.eeprom.reg = call.ev[2].reg /\ rtc.eeprom.value = call.ev[2].value

\* The engine states one tick can lead to from state s
StepSucc(s) ==
  CASE s = "Idle" -> {"Idle", "ReadControl1"}
    [] s = "ReadControl1" -> {"EnableEerd", "Idle", "ReadControl1"}
    [] s = "EnableEerd" -> {"WriteAddr", "RestoreControl1"}
    [] s = "WriteAddr" -> {"WriteData", "RestoreControl1"}
    [] s = "WriteData" -> {"WaitReadyPreCmd", "RestoreControl1"}
    [] s = "WaitReadyPreCmd" -> {"WaitReadyPreCmd", "WriteCmd", "RestoreControl1"}
    [] s = "WriteCmd" -> {"WaitReadyPostCmd", "RestoreControl1"}
    [] s = "WaitReadyPostCmd" -> {"WaitReadyPostCmd", "RestoreControl1"}
    [] s = "RestoreControl1" -> {"Idle", "ReadControl1"}

\* C5: a tick() invokes the transport at most once and takes the engine one
\* step along its sequence, whatever state the engine is in; the tick that
\* finishes a write and starts the next one is no exception.
C5_OneStepPerTick ==
  [][(IsCall /\ call'.op = "tick") =>
       /\ call'.tx <= 1
       /\ Len(call'.wire) = call'.tx
       /\ Len(call'.log) = call'.tx
       /\ rtc'.eeprom.state \in StepSucc(rtc.eeprom.state)
       /\ (rtc.eeprom.state = "Idle") => (call'.tx = 0)]_vars

\* The tick that restored CONTROL1, finished a write and started the next
C5_Witness ==
  /\ call.op = "tick"
  /\ call.tx = 1
  /\ call.wire[1].k = "W" /\ call.wire[1].reg = REG_CONTROL1
  /\ Len(call.ev) = 2
  /\ call.ev[1].k = "finish" /\ call.ev[2].k = "start"
  /\ rtc.eeprom.state = "ReadControl1"

\* What a rejected call may do: nothing on the bus, and INVALID_PARAM when
\* the driver is initialized (an uninitialized driver answers NOT_INITIALIZED
\* before it looks at the parameter)
RejectedParam(r) ==
  /\ r.tx = 0 /\ r.wire = <<>> /\ r.log = <<>>
  /\ r.bus = bus
  /\ rtc.initialized => r.st = "INVALID_PARAM"
  /\ ~rtc.initialized => r.st = "NOT_INITIALIZED"

C7_RejectedCallChangesNothing ==
  [][(IsCall /\ call'.st \in {"INVALID_CONFIG", "NOT_INITIALIZED"}) =>
       /\ HealthOf(rtc') = HealthOf(rtc)
       /\ rtc'.initialized = rtc.initialized
       /\ rtc'.eeprom = rtc.eeprom
       /\ rtc'.eepromLastStatus = rtc.eepromLastStatus]_vars

\* C8 as stated: readTime() that returns INVALID_DATETIME leaves the health
\* record (counters, timestamps, state) as it was before the call.
C8_InvalidTimeLeavesHealth ==
  [][(IsCall /\ call'.op = "readTime" /\ call'.st = "INVALID_DATETIME") =>
       HealthOf(rtc') = HealthOf(rtc)]_vars

\* C8 amended: readTime() that returns INVALID_DATETIME has made one tracked
\* read, and the health record counts it as one success: totalSuccess is one
\* higher, lastOkMs is the time of the call, the consecutive-failure count is
\* 0 and the state READY; no failure is recorded (totalFailures, lastError
\* and lastErrorMs are as before).
C8_InvalidTimeCountsAsSuccess ==
  [][(IsCall /\ call'.op = "readTime" /\ call'.st = "INVALID_DATETIME") =>
       /\ call'.log = <<TRUE>>
       /\ call'.tx = 1
       /\ rtc'.totalSuccess = U32Inc(rtc.totalSuccess)
       /\ rtc'.lastOkMs = now
       /\ rtc'.consecutiveFailures = 0
       /\ rtc'.driverState = "READY"
       /\ rtc'.totalFailures = rtc.totalFailures
       /\ rtc'.lastError = rtc.lastError
       /\ rtc'.lastErrorMs = rtc.lastErrorMs]_vars

\* readTime() read an invalid time on a driver that had recorded a failure
C8_Witness ==
  /\ call.op = "readTime"
  /\ call.st = "INVALID_DATETIME"
  /\ call.log = <<TRUE>>
  /\ rtc.totalFailures # U32Of(0)
  /\ rtc.driverState = "READY"

C10_RecoverFailureDegrades ==
  [][(/\ IsCall /\ call'.op = "recover" /\ call'.st = "DEVICE_NOT_FOUND"
      /\ rtc.driverState = "READY" /\ rtc.consecutiveFailures = 0) =>
       /\ Len(call'.log) = 1
       /\ rtc'.totalFailures = U32Inc(rtc.totalFailures)
       /\ rtc'.totalSuccess = rtc.totalSuccess
       /\ rtc'.consecutiveFailures = 1
       /\ rtc'.driverState = "DEGRADED"]_vars

\* C10 amended: as C10, but the state afterwards is DEGRADED only when the
\* offline threshold is at least 2; with a threshold of 1 it is OFFLINE.
C10_RecoverFailureOnce ==
  [][(/\ IsCall /\ call'.op = "recover" /\ rtc.initialized
      /\ call'.tx >= 1 /\ call'.log # <<>> /\ ~call'.log[1]
      /\ rtc.driverState = "READY" /\ rtc.consecutiveFailures = 0) =>
       /\ call'.st = "DEVICE_NOT_FOUND"
       /\ Len(call'.log) = 1
       /\ rtc'.totalFailures = U32Inc(rtc.totalFailures)
       /\ rtc'.totalSuccess = rtc.totalSuccess
       /\ rtc'.consecutiveFailures = 1
       /\ rtc'.driverState =
            IF rtc.config.offlineThreshold >= 2 THEN "DEGRADED" ELSE "OFFLINE"]_vars

\* recover() on a READY driver with threshold 3 recorded its only failure
C10_Witness ==
  /\ call.op = "recover"
  /\ call.st = "DEVICE_NOT_FOUND"
  /\ call.log = <<FALSE>>
  /\ rtc.config.offlineThreshold = 3
  /\ rtc.consecutiveFailures = 1
  /\ rtc.totalFailures = U32Of(1)
  /\ rtc.driverState = "DEGRADED"

\* C11: a recover() that returns OK leaves the driver READY with a
\* consecutive-failure count of 0, whatever state it was in; recover() on a
\* driver that is not initialized returns NOT_INITIALIZED, invokes no
\* transport and changes nothing.
C11_RecoverSuccessReady ==
  [][(IsCall /\ call'.op = "recover") =>
       /\ (call'.st = "OK") =>
            /\ rtc.initialized /\ rtc'.initialized
            /\ rtc'.driverState = "READY"
            /\ rtc'.consecutiveFailures = 0
            /\ call'.tx >= 2
       /\ (~rtc.initialized) =>
            /\ call'.st = "NOT_INITIALIZED"
            /\ call'.tx = 0 /\ call'.wire = <<>>
            /\ rtc' = rtc /\ bus' = bus]_vars

\* recover() succeeded on a driver that one failure had taken OFFLINE
\* (threshold 1): one success of begin(), the failure, two of recover()
C11_Witness ==
  /\ call.op = "recover"
  /\ call.st = "OK"
  /\ call.log = <<TRUE, TRUE>>
  /\ rtc.config.offlineThreshold = 1
  /\ rtc.totalFailures = U32Of(1)
  /\ rtc.totalSuccess = U32Of(3)
  /\ rtc.driverState = "READY"

\* The state that goes with a consecutive-failure count under threshold thr
StateOfCount(n, thr) ==
  IF n = 0 THEN "READY" ELSE IF n < thr THEN "DEGRADED" ELSE "OFFLINE"

\* C12: while the driver is initialized its state is the one its
\* consecutive-failure count decides (READY at 0, DEGRADED from 1 up to the
\* threshold, OFFLINE from the threshold on), the stored threshold is at least
\* 1, and an OFFLINE driver stays OFFLINE through every call that records no
\* success.
C12_StateAgreesWithCount ==
  [][/\ rtc.initialized =>
          /\ rtc.config.offlineThreshold >= 1
          /\ rtc.driverState =
               StateOfCount(rtc.consecutiveFailures, rtc.config.offlineThreshold)
     /\ rtc'.initialized =>
          /\ rtc'.config.offlineThreshold >= 1
          /\ rtc'.driverState =
               StateOfCount(rtc'.consecutiveFailures, rtc'.config.offlineThreshold)
     /\ (/\ IsCall /\ call'.op \notin {"begin", "end"}
         /\ rtc.driverState = "OFFLINE"
         /\ \A i \in 1..Len(call'.log) : ~call'.log[i]) =>
          rtc'.driverState = "OFFLINE"]_vars

\* Three failures in a row took a driver with threshold 3 OFFLINE
C12_Witness ==
  /\ rtc.initialized
  /\ rtc.config.offlineThreshold = 3
  /\ rtc.consecutiveFailures = 3
  /\ rtc.driverState = "OFFLINE"
  /\ call.log = <<FALSE>>

\* C13: between calls the driver state is UNINIT exactly when the driver is
\* not initialized; a begin() that fails leaves it not initialized and UNINIT,
\* one that succeeds leaves it initialized and READY; no call is left in
\* progress.
C13_UninitIffNotInitialized ==
  /\ (rtc.driverState = "UNINIT") <=> ~rtc.initialized
  /\ rtc.driverState \in {"UNINIT", "READY", "DEGRADED", "OFFLINE"}
  /\ ~rtc.beginInProgress
  /\ (call.op = "begin" /\ call.st # "OK") =>
       (~rtc.initialized /\ rtc.driverState = "UNINIT")
  /\ (call.op = "begin" /\ call.st = "OK") =>
       (rtc.initialized /\ rtc.driverState = "READY")

\* begin() failed while re-applying the configuration: the transactions it
\* made are counted, the driver is UNINIT
C13_Witness ==
  /\ call.op = "begin"
  /\ call.st \in {"I2C_ERROR", "TIMEOUT"}
  /\ call.log # <<>>
  /\ ~rtc.initialized
  /\ rtc.driverState = "UNINIT"
  /\ rtc.totalFailures = U32Of(1)

\* C14: while EEPROM writes are disabled in the stored configuration the
\* engine is Idle and the ring is empty; setClkoutEnabled() whose
\* transactions all succeed then returns OK, starts and queues nothing, and
\* its only write on the bus is the one to the register it sets; tick() then
\* invokes no transport and changes nothing.
C14_DisabledWritesStayVolatile ==
  [][/\ (~rtc.config.enableEepromWrites) =>
          (rtc.eeprom.state = "Idle" /\ rtc.eeprom.queueCount = 0)
     /\ (~rtc'.config.enableEepromWrites) =>
          (rtc'.eeprom.state = "Idle" /\ rtc'.eeprom.queueCount = 0)
     /\ (/\ IsCall /\ call'.op \in PersistingOps
         /\ rtc.initialized /\ ~rtc.config.enableEepromWrites
         /\ \A i \in 1..Len(call'.log) : call'.log[i]) =>
          /\ call'.st = "OK"
          /\ rtc'.eeprom = rtc.eeprom
          /\ \A i \in 1..Len(call'.ev) : call'.ev[i].k \notin {"accept", "start"}
          /\ \A i \in 1..Len(call'.wire) :
               (call'.wire[i].k = "W") =>
                 (i = 3 /\ call'.wire[i].reg = REG_EEPROM_PMU /\ call'.wire[i].n = 1)
     /\ (/\ IsCall /\ call'.op = "tick"
         /\ ~rtc.config.enableEepromWrites) =>
          (call'.tx = 0 /\ call'.wire = <<>> /\ rtc' = rtc /\ bus' = bus)]_vars

\* setClkoutEnabled() changed the register with EEPROM writes disabled
C14_Witness ==
  /\ call.op = "setClkoutEnabled"
  /\ call.st = "OK"
  /\ Len(call.wire) = 3
  /\ call.wire[3].k = "W" /\ call.wire[3].reg = REG_EEPROM_PMU
  /\ rtc.initialized /\ ~rtc.config.enableEepromWrites
  /\ rtc.eeprom.state = "Idle"

\* A call that wrote a new value to the volatile register: read, read, write
WroteNewValue ==
  /\ IsCall /\ call'.op \in PersistingOps
  /\ rtc.initialized /\ rtc.config.enableEepromWrites
  /\ call'.log = <<TRUE, TRUE, TRUE>>

\* The (register, value) pair the call wrote
WrittenPair == [reg |-> call'.wire[3].reg, value |-> call'.wire[3].data[1]]

\* The engine started the pair at once and the ring stayed empty
StartedAtOnce ==
  /\ call'.st = "IN_PROGRESS"
  /\ rtc'.eeprom.state = "ReadControl1"
  /\ rtc'.eeprom.reg = WrittenPair.reg /\ rtc'.eeprom.value = WrittenPair.value
  /\ rtc'.eeprom.queueCount = 0

\* The pair went to the back of the ring, the write in flight was left alone
AppendedAtBack ==
  /\ call'.st = "IN_PROGRESS"
  /\ RingSeq(rtc'.eeprom) = Append(RingSeq(rtc.eeprom), WrittenPair)
  /\ rtc'.eeprom.state = rtc.eeprom.state
  /\ rtc'.eeprom.reg = rtc.eeprom.reg /\ rtc'.eeprom.value = rtc.eeprom.value

\* C15 as stated: with EEPROM writes enabled, a write that changes the
\* register is started at once when the engine is Idle and the ring empty,
\* and is appended at the back of the ring otherwise; the call returns
\* IN_PROGRESS in both cases.
C15_StartOrAppend ==
  [][WroteNewValue =>
       IF rtc.eeprom.state = "Idle" /\ rtc.eeprom.queueCount = 0
       THEN StartedAtOnce ELSE AppendedAtBack]_vars

\* C15 amended: as C15 while the ring holds fewer than 8 writes; with 8
\* queued the pair is not appended, the call returns QUEUE_FULL and the
\* engine is unchanged.
C15_StartOrAppendUnlessFull ==
  [][WroteNewValue =>
       IF rtc.eeprom.state = "Idle" /\ rtc.eeprom.queueCount = 0
       THEN StartedAtOnce
       ELSE IF rtc.eeprom.queueCount < kEepromQueueSize
       THEN AppendedAtBack
       ELSE call'.st = "QUEUE_FULL" /\ rtc'.eeprom = rtc.eeprom]_vars

\* A write was started at once by an engine that had already finished one
C15_Witness ==
  /\ call.op \in PersistingOps
  /\ call.st = "IN_PROGRESS"
  /\ Len(call.ev) = 2
  /\ call.ev[1].k = "accept" /\ call.ev[2].k = "start"
  /\ rtc.eeprom.state = "ReadControl1"
  /\ rtc.eeprom.queueCount = 0
  /\ rtc.totalSuccess[2] >= 14

\* The status of the last "finish" in the events evs ("OK" if there is none)
LastFinal(evs) ==
  LET F == {i \in 1..Len(evs) : evs[i].k = "finish"} IN
  IF F = {} THEN "OK" ELSE evs[CHOOSE i \in F : \A j \in F : j <= i].st

\* C16: getEepromStatus() is IN_PROGRESS exactly when a write is in flight or
\* the ring is not empty; otherwise it is the final status of the write that
\* finished last: a call that finishes a write and leaves the engine at rest
\* makes it that write's status, begin() and end() make it OK, and every
\* other call that leaves the engine at rest leaves it as it was.
C16_EepromStatus ==
  [][IsCall =>
       LET busy == rtc'.eeprom.state # "Idle" \/ RingSeq(rtc'.eeprom) # <<>>
           got == getEepromStatus(rtc')
           kinds == {call'.ev[i].k : i \in 1..Len(call'.ev)}
       IN /\ (got = "IN_PROGRESS") <=> busy
          /\ isEepromBusy(rtc') <=> busy
          /\ (~busy /\ "finish" \in kinds) => (got = LastFinal(call'.ev))
          /\ (~busy /\ "finish" \notin kinds /\ "reset" \in kinds) => (got = "OK")
          /\ (~busy /\ kinds \cap {"finish", "reset"} = {}) =>
               (~isEepromBusy(rtc) /\ got = getEepromStatus(rtc))]_vars

\* The last write failed in the EEPROM and nothing is waiting
C16_Witness ==
  /\ call.op = "tick"
  /\ Len(call.ev) = 1 /\ call.ev[1].k = "finish"
  /\ call.ev[1].st = "EEPROM_WRITE_FAILED"
  /\ ~isEepromBusy(rtc)
  /\ getEepromStatus(rtc) = "EEPROM_WRITE_FAILED"

\* The feature operations of the lifecycle specification
FeatureOps == {"readTime", "recover", "setClkoutEnabled"}

\* C17: end() leaves the driver not initialized and UNINIT with the
\* consecutive-failure count and the lifetime counters 0, the last error OK,
\* the engine Idle, the ring empty and the last persistence status OK,
\* whatever it was doing; on a driver that is not initialized tick() invokes
\* no transport and changes nothing, and the feature operations return
\* NOT_INITIALIZED without touching the bus.
C17_EndResets ==
  [][IsCall =>
       /\ (call'.op = "end") =>
            /\ ~rtc'.initialized /\ rtc'.driverState = "UNINIT"
            /\ rtc'.consecutiveFailures = 0
            /\ rtc'.totalFailures = U32Of(0) /\ rtc'.totalSuccess = U32Of(0)
            /\ rtc'.lastError = "OK"
            /\ rtc'.eeprom.state = "Idle" /\ rtc'.eeprom.queueCount = 0
            /\ rtc'.eepromLastStatus = "OK"
            /\ call'.tx = 0
       /\ (call'.op = "tick" /\ ~rtc.initialized) =>
            (call'.tx = 0 /\ rtc' = rtc /\ bus' = bus)
       /\ (call'.op \in FeatureOps /\ ~rtc.initialized) =>
            (call'.st = "NOT_INITIALIZED" /\ call'.tx = 0 /\ rtc' = rtc /\ bus' = bus)]_vars

\* A feature operation was refused on a driver that had been running (the
\* backup mode it wrote is on the device) and was ended
C17_Witness ==
  /\ call.op \in FeatureOps
  /\ call.st = "NOT_INITIALIZED"
  /\ ~rtc.initialized /\ rtc.driverState = "UNINIT"
  /\ rtc.totalSuccess = U32Of(0) /\ rtc.totalFailures = U32Of(0)
  /\ rtc.eeprom.state = "Idle" /\ rtc.eeprom.queueCount = 0
  /\ BitAnd(bus[REG_EEPROM_PMU], PMU_BSM_MASK) = PMU_BSM_DIRECT

\* C18: a tick() leaves the driver state, the consecutive-failure count and
\* the lifetime counters as they were.
C18_TickLeavesHealth ==
  [][(IsCall /\ call'.op = "tick") =>
       /\ rtc'.driverState = rtc.driverState
       /\ rtc'.consecutiveFailures = rtc.consecutiveFailures
       /\ rtc'.totalFailures = rtc.totalFailures
       /\ rtc'.totalSuccess = rtc.totalSuccess]_vars

\* C19 as stated: for every calendar value isValidDateTime accepts,
\* dateTimeToUnix and then unixToDateTime succeed and give back the value,
\* equal in every field, the weekday field included.
C19_RoundTripIdentical ==
  /\ (call.op = "dateTimeToUnix" /\ isValidDateTime(call.t)) => call.ok
  /\ (call.op = "unixToDateTime" /\ isValidDateTime(call.t)) =>
       (call.ok /\ call.out = call.t)

\* C19 amended: both conversions succeed and give back year, month, day,
\* hour, minute and second unchanged; the weekday that comes back is the one
\* computed from the date (0 = Sunday; 1 January 2000 is 6), so the value is
\* identical in every field exactly when the weekday field that went in was
\* the weekday of the date.
C19_RoundTripComputesWeekday ==
  /\ (call.op = "dateTimeToUnix" /\ isValidDateTime(call.t)) => call.ok
  /\ (call.op = "unixToDateTime" /\ isValidDateTime(call.t)) =>
       /\ call.ok
       /\ [call.out EXCEPT !.weekday = call.t.weekday] = call.t
       /\ call.out.weekday =
            (DaysBeforeYear(call.t.year) - DaysBeforeYear(2000)
             + kDaysBeforeMonth[call.t.month]
             + (IF call.t.month > 2 /\ call.t.year % 4 = 0 THEN 1 ELSE 0)
             + (call.t.day - 1) + 6) % 7
       /\ (call.out = call.t) <=>
            (call.t.weekday = computeWeekday(call.t.year, call.t.month, call.t.day))

\* The last second of 2099 went through both conversions and came back with
\* another weekday than it went in with
C19_Witness ==
  /\ call.op = "unixToDateTime"
  /\ call.ok
  /\ call.t.year = 2099 /\ call.t.month = 12 /\ call.t.day = 31
  /\ call.t.hour = 23 /\ call.t.minute = 59 /\ call.t.second = 59
  /\ call.out.year = 2099 /\ call.out.second = 59
  /\ call.out.weekday # call.t.weekday

\* C20: for every v in 0..99, bcdToBinary(binaryToBcd(v)) is v and both
\* nibbles of binaryToBcd(v) are at most 9.
C20_BcdRoundTrip ==
  /\ (call.op \in {"binaryToBcd", "bcdToBinary"} /\ call.v <= 99) =>
       /\ call.bcd \in 0..UINT8_MAX
       /\ call.bcd % 16 <= 9
       /\ call.bcd \div 16 <= 9
       /\ isValidBcd(call.bcd)
  /\ (call.op = "bcdToBinary" /\ call.v <= 99) => (call.bin = call.v)

\* 99 went to 0x99 and back
C20_Witness ==
  /\ call.op = "bcdToBinary"
  /\ call.v = 99
  /\ call.bcd = 153
  /\ call.bin = 99

\* C25: in every reachable state, setTimer with ticks <= 0x0FFF that returns
\* OK has written the low 8 bits of ticks to TIMER_LOW and bits 8..11 of ticks
\* to the low nibble of TIMER_HIGH, and the upper nibble of TIMER_HIGH is what
\* it was before the call; with 0xA0 there before and 0x456 ticks, TIMER_LOW
\* is 0x56 and TIMER_HIGH 0xA4.  No other register than CONTROL1 and the two
\* timer registers is written.
C25_TimerKeepsReserved ==
  \A a \in TimerInputs, p \in Plans(5), enable \in BOOLEAN :
    LET r == setTimer(Ctx, p, a[1], a[2], enable) IN
    (a[1] <= 4095 /\ r.st = "OK" /\ r.tx > 0) =>
      /\ r.bus[REG_TIMER_LOW] = a[1] % 256
      /\ r.bus[REG_TIMER_HIGH] % 16 = a[1] \div 256
      /\ r.bus[REG_TIMER_HIGH] \div 16 = bus[REG_TIMER_HIGH] \div 16
      /\ (bus[REG_TIMER_HIGH] = 160 /\ a[1] = 1110) =>
           (r.bus[REG_TIMER_LOW] = 86 /\ r.bus[REG_TIMER_HIGH] = 164)
      /\ \A reg \in DOMAIN bus \ {REG_CONTROL1, REG_TIMER_LOW, REG_TIMER_HIGH} :
           r.bus[reg] = bus[reg]

\* setTimer(0x456) wrote 0x56 and 0xA4
C25_Witness ==
  /\ call.op = "setTimer"
  /\ call.st = "OK"
  /\ call.tx = 5
  /\ call.wire[5] = [k |-> "W", reg |-> REG_TIMER_HIGH, n |-> 1, data |-> <<164>>]
  /\ bus[REG_TIMER_LOW] = 86
  /\ bus[REG_TIMER_HIGH] = 164

\* The byte b, a register with bit 7 masked off, has a digit above 9
BadDigits(b) == (b % 128) % 16 > 9 \/ (b % 128) \div 16 > 9

\* The number the two digits of b stand for
DigitsOf(b) == (((b % 128) \div 16) * 10) + ((b % 128) % 16)

\* The alarm registers of the bus hold something that is no alarm time
BadAlarmRegisters(b) ==
  LET m == b[REG_ALARM_MINUTE]
      h == b[REG_ALARM_MINUTE + 1]
      d == b[REG_ALARM_MINUTE + 2]
  IN \/ BadDigits(m) \/ BadDigits(h) \/ BadDigits(d)
     \/ DigitsOf(m) > 59 \/ DigitsOf(h) > 23
     \/ DigitsOf(d) = 0 \/ DigitsOf(d) > 31

\* C26: getAlarmConfig that has read the three alarm registers returns
\* INVALID_PARAM and leaves the caller's AlarmConfig unwritten whenever one of
\* them holds, below bit 7, a digit above 9 or a minute above 59, an hour
\* above 23, or a date that is 0 or above 31.
C26_AlarmRegistersChecked ==
  [][(/\ IsCall /\ call'.op = "getAlarmConfig"
      /\ call'.log = <<TRUE>>
      /\ BadAlarmRegisters(bus)) =>
       /\ call'.st = "INVALID_PARAM"
       /\ call'.out = AlarmConfigInit]_vars

\* getAlarmConfig refused a minute register that holds 0x60
C26_Witness ==
  /\ call.op = "getAlarmConfig"
  /\ call.st = "INVALID_PARAM"
  /\ call.log = <<TRUE>>
  /\ bus[REG_ALARM_MINUTE] = 96
  /\ call.out = AlarmConfigInit

\* The transactions of the call that write CONTROL1
Control1Writes(w) ==
  {i \in 1..Len(w) : w[i].k = "W" /\ w[i].reg = REG_CONTROL1}

\* CONTROL1 without its unlock (EERD) bit
OtherControl1Bits(b) == BitClear(b[REG_CONTROL1], Pow2(CTRL1_EERD_BIT))

\* C27: however the facade operations and the ticks interleave, a call other
\* than tick() does not write CONTROL1 while a persistent write is in flight,
\* and the engine's own writes of CONTROL1 change no bit but the unlock bit,
\* so that when the write ends every other bit is what it would have been
\* without it.
C27_Control1OnlyByEngine ==
  [][IsCall =>
       /\ (rtc.eeprom.state # "Idle" /\ call'.op # "tick") =>
            (Control1Writes(call'.wire) = {})
       /\ (call'.op = "tick") =>
            (OtherControl1Bits(bus') = OtherControl1Bits(bus))]_vars

RECURSIVE TickRun(_, _)
\* n ticks in a row on a bus that does not fail, with the busy flag clear
TickRun(c, n) == IF n = 0 THEN c ELSE TickRun(tick(c, NoFault, now), n - 1)

\* C28: from every state in which a write has just been started, eight ticks
\* without a bus failure and with the busy flag clear take the engine through
\* EnableEerd, WriteAddr, WriteData, WaitReadyPreCmd, WriteCmd,
\* WaitReadyPostCmd and RestoreControl1, one step per tick, and the eighth
\* ends the write with OK (the engine is Idle, or has started the next queued
\* write); the eight transactions are, in order: read CONTROL1, write it
\* with the unlock bit set, write the address, write the value, read the
\* flags, write the command 0x21, read the flags, write CONTROL1 with the
\* unlock bit cleared.
C28_StepOrder ==
  (rtc.initialized /\ rtc.config.enableEepromWrites
   /\ rtc.eeprom.state = "ReadControl1") =>
    LET e == rtc.eeprom
        ctl == bus[REG_CONTROL1]
        R(reg) == [k |-> "R", reg |-> reg, n |-> 1, data |-> <<>>]
        W(reg, v) == [k |-> "W", reg |-> reg, n |-> 1, data |-> <<v>>]
        last == TickRun(Ctx, 8)
    IN /\ [i \in 1..7 |-> TickRun(Ctx, i).rtc.eeprom.state]
            = <<"EnableEerd", "WriteAddr", "WriteData", "WaitReadyPreCmd",
                "WriteCmd", "WaitReadyPostCmd", "RestoreControl1">>
       /\ \A i \in 1..8 : TickRun(Ctx, i).tx = i
       /\ \A i \in 1..7 : TickRun(Ctx, i).ev = <<>>
       /\ last.wire
            = <<R(REG_CONTROL1), W(REG_CONTROL1, BitOr(ctl, 4)),
                W(REG_EE_ADDRESS, e.reg), W(REG_EE_DATA, e.value),
                R(REG_TEMP_LSB), W(REG_EE_COMMAND, 33), R(REG_TEMP_LSB),
                W(REG_CONTROL1, BitClear(ctl, 4))>>
       /\ last.ev[1] = [k |-> "finish", reg |-> e.reg, value |-> e.value, st |-> "OK"]
       /\ last.rtc.eepromLastStatus = "OK"
       /\ last.rtc.eeprom.state = IF e.queueCount = 0 THEN "Idle" ELSE "ReadControl1"
       /\ (e.queueCount = 0) => (Len(last.ev) = 1)

\* begin() started the backup-mode write and eight ticks ended it with OK
C28_Witness ==
  /\ call.op = "tick"
  /\ call.ev = <<[k |-> "finish", reg |-> REG_EEPROM_PMU,
                  value |-> PMU_BSM_DIRECT, st |-> "OK"]>>
  /\ rtc.eeprom.state = "Idle"
  /\ rtc.totalSuccess = U32Of(11) /\ rtc.totalFailures = U32Of(0)
  /\ bus[REG_EE_ADDRESS] = REG_EEPROM_PMU
  /\ bus[REG_EE_DATA] = PMU_BSM_DIRECT
  /\ bus[REG_EE_COMMAND] = EEPROM_CMD_UPDATE

\* The kinds of the events of a call
EventKinds(evs) == {evs[i].k : i \in 1..Len(evs)}

\* This step is a tick in which the transaction of an engine step failed
FailedStep ==
  /\ IsCall /\ call'.op = "tick"
  /\ rtc.eeprom.state \notin {"Idle", "RestoreControl1"}
  /\ call'.log = <<FALSE>>

\* This step is a tick that runs RestoreControl1: it writes CONTROL1 with the
\* unlock bit cleared, nothing else, and ends the write
RestoreStep ==
  /\ Len(call'.wire) = 1
  /\ call'.wire[1].k = "W" /\ call'.wire[1].reg = REG_CONTROL1
  /\ call'.wire[1].data = <<BitClear(rtc.eeprom.control1, Pow2(CTRL1_EERD_BIT))>>
  /\ call'.ev # <<>> /\ call'.ev[1].k = "finish"

\* C29 as stated: a tick whose transaction fails at any step, ReadControl1
\* included, leaves the engine in RestoreControl1 without ending the write;
\* the tick that follows in RestoreControl1 only writes CONTROL1; and a write
\* is ended by no tick other than one that runs RestoreControl1.
C29_FailureGoesToRestore ==
  [][/\ FailedStep =>
          (rtc'.eeprom.state = "RestoreControl1" /\ "finish" \notin EventKinds(call'.ev))
     /\ (IsCall /\ call'.op = "tick" /\ rtc.eeprom.state = "RestoreControl1") =>
          RestoreStep
     /\ (IsCall /\ call'.op = "tick" /\ "finish" \in EventKinds(call'.ev)) =>
          (rtc.eeprom.state = "RestoreControl1")]_vars

\* C29 amended: a failure of the CONTROL1 read in ReadControl1 ends the write
\* in that same tick with the failure as its result, without a RestoreControl1
\* step (the unlock bit has not been set and nothing is written); a failure
\* at any later step leaves the engine in RestoreControl1 without ending the
\* write, the tick that follows only writes CONTROL1 with the unlock bit
\* cleared, and a write is ended by no other tick than these two.
C29_FailureGoesToRestoreButFirst ==
  [][/\ (FailedStep /\ rtc.eeprom.state = "ReadControl1") =>
          /\ call'.wire = <<[k |-> "R", reg |-> REG_CONTROL1, n |-> 1, data |-> <<>>]>>
          /\ call'.ev # <<>>
          /\ call'.ev[1] = [k |-> "finish", reg |-> rtc.eeprom.reg,
                            value |-> rtc.eeprom.value,
                            st |-> rtc'.lastError]
          /\ isI2cFailure(call'.ev[1].st)
          /\ rtc'.eeprom.state \in {"Idle", "ReadControl1"}
          /\ bus' = bus
     /\ (FailedStep /\ rtc.eeprom.state # "ReadControl1") =>
          /\ rtc'.eeprom.state = "RestoreControl1"
          /\ "finish" \notin EventKinds(call'.ev)
          /\ rtc'.eepromLastStatus = rtc'.lastError
     /\ (IsCall /\ call'.op = "tick" /\ rtc.eeprom.state = "RestoreControl1") =>
          RestoreStep
     /\ (IsCall /\ call'.op = "tick" /\ "finish" \in EventKinds(call'.ev)) =>
          \/ rtc.eeprom.state = "RestoreControl1"
          \/ rtc.eeprom.state = "ReadControl1" /\ call'.log = <<FALSE>>]_vars

\* The CONTROL1 read of ReadControl1 failed and the write ended at once
C29_Witness ==
  /\ call.op = "tick"
  /\ call.log = <<FALSE>>
  /\ call.wire = <<[k |-> "R", reg |-> REG_CONTROL1, n |-> 1, data |-> <<>>]>>
  /\ call.ev = <<[k |-> "finish", reg |-> REG_EEPROM_PMU,
                  value |-> PMU_BSM_DIRECT, st |-> "I2C_ERROR"]>>
  /\ rtc.eeprom.state = "Idle"
  /\ rtc.eepromLastStatus = "I2C_ERROR"

\* This step is the tick that runs RestoreControl1
RestoreTick == IsCall /\ call'.op = "tick" /\ rtc.eeprom.state = "RestoreControl1"

\* C30: the result recorded when a write ends is the first error met: the
\* error a step left behind (a bus failure, a timeout of the busy wait, a
\* write the EEPROM reports as failed) is recorded whether or not the
\* restoring write fails as well; the failure of the restoring write is
\* recorded only when no step left an error; with no error the result is OK.
\* A failed CONTROL1 read in ReadControl1 is recorded as it is.
C30_FirstErrorWins ==
  [][/\ (IsCall /\ call'.op = "tick" /\ rtc'.eeprom.state = "RestoreControl1") =>
          /\ (call'.log = <<FALSE>>) =>
               (rtc'.eepromLastStatus = rtc'.lastError /\ isI2cFailure(rtc'.lastError))
          /\ (call'.log = <<TRUE>>) =>
               /\ rtc'.eepromLastStatus \in {"OK", "TIMEOUT", "EEPROM_WRITE_FAILED"}
               /\ (rtc'.eepromLastStatus \in {"OK", "EEPROM_WRITE_FAILED"}) =>
                    (rtc.eeprom.state = "WaitReadyPostCmd")
               /\ (rtc'.eepromLastStatus = "TIMEOUT") =>
                    /\ rtc.eeprom.state \in {"WaitReadyPreCmd", "WaitReadyPostCmd"}
                    /\ hasDeadlinePassed(now, rtc.eeprom.deadlineMs)
     /\ RestoreTick =>
          LET earlier == rtc.eepromLastStatus
              final == call'.ev[1].st
          IN /\ call'.ev[1].k = "finish"
             /\ (earlier # "OK") => (final = earlier)
             /\ (earlier = "OK" /\ call'.log = <<FALSE>>) =>
                  (final = rtc'.lastError /\ isI2cFailure(final))
             /\ (earlier = "OK" /\ call'.log = <<TRUE>>) => (final = "OK")
             /\ (rtc'.eeprom.state = "Idle") => (rtc'.eepromLastStatus = final)
     /\ (IsCall /\ call'.op = "tick" /\ rtc.eeprom.state = "ReadControl1"
         /\ call'.log = <<FALSE>>) =>
          (call'.ev[1].st = rtc'.lastError /\ isI2cFailure(rtc'.lastError))]_vars

\* The busy wait before the command timed out, the restoring write then
\* failed on the bus, and TIMEOUT is the result
C30_Witness ==
  /\ call.op = "tick"
  /\ call.log = <<FALSE>>
  /\ call.wire[1].k = "W" /\ call.wire[1].reg = REG_CONTROL1
  /\ call.ev # <<>>
  /\ call.ev[1].k = "finish" /\ call.ev[1].st = "TIMEOUT"
  /\ rtc.lastError = "I2C_ERROR"
  /\ rtc.totalFailures = U32Of(1)
  /\ rtc.eepromLastStatus = "TIMEOUT"
  /\ rtc.eeprom.state = "Idle"

\* The engine is polling the busy flag before the command
WaitsBeforeCommand ==
  rtc.initialized /\ rtc.eeprom.state = "WaitReadyPreCmd"

\* Times of a poll, in milliseconds after the data byte was staged
PreWaitOffsets == {0, 1, 49, 50, 51, 200}

\* The tick at the time d ms after the data byte was staged, on a bus that
\* does not fail, with the busy flag as given
PreWaitPoll(d, busy) ==
  tick(Ctx, [NoFault EXCEPT !.busy = busy],
       U32Add(U32Sub(rtc.eeprom.deadlineMs, U32Of(kEepromPreCmdTimeoutMs)), d))

\* C31: the wait before the command has a deadline 50 ms after the tick that
\* staged the data byte, and no poll moves it.  A poll that reads the busy
\* flag clear takes the engine to WriteCmd; a poll that reads it set less
\* than 50 ms after the staging leaves the engine waiting; a poll that reads
\* it set 50 ms or more after the staging takes the engine to RestoreControl1
\* with TIMEOUT, and the next tick ends the write: the command register is
\* not written for it.
C31_PreCommandWait ==
  /\ [][/\ (IsCall /\ call'.op = "tick" /\ rtc.eeprom.state = "WriteData"
            /\ call'.log = <<TRUE>>) =>
             /\ rtc'.eeprom.state = "WaitReadyPreCmd"
             /\ rtc'.eeprom.deadlineMs = U32Add(now, 50)
        /\ (rtc.eeprom.state = "WaitReadyPreCmd"
            /\ rtc'.eeprom.state = "WaitReadyPreCmd") =>
             (rtc'.eeprom.deadlineMs = rtc.eeprom.deadlineMs)]_vars
  /\ [](WaitsBeforeCommand =>
         \A d \in PreWaitOffsets :
           LET clear == PreWaitPoll(d, FALSE)
               set == PreWaitPoll(d, TRUE)
               after == tick(set, NoFault, now)
               R(reg) == [k |-> "R", reg |-> reg, n |-> 1, data |-> <<>>]
           IN /\ clear.rtc.eeprom.state = "WriteCmd"
              /\ clear.wire = <<R(REG_TEMP_LSB)>>
              /\ set.wire = <<R(REG_TEMP_LSB)>>
              /\ (d < 50) =>
                   /\ set.rtc.eeprom = rtc.eeprom
                   /\ set.rtc.eepromLastStatus = rtc.eepromLastStatus
              /\ (d >= 50) =>
                   /\ set.rtc.eeprom.state = "RestoreControl1"
                   /\ set.rtc.eepromLastStatus = "TIMEOUT"
                   /\ set.ev = <<>>
                   /\ after.ev[1] = [k |-> "finish", reg |-> rtc.eeprom.reg,
                                     value |-> rtc.eeprom.value, st |-> "TIMEOUT"]
                   /\ after.bus[REG_EE_COMMAND] = bus[REG_EE_COMMAND]
                   /\ Len(after.wire) = 2
                   /\ after.wire[2].reg = REG_CONTROL1)

\* The busy flag was still set 50 ms after the data byte was staged: the
\* engine is in RestoreControl1 with TIMEOUT and no command has been written
C31_Witness ==
  /\ call.op = "tick"
  /\ call.log = <<TRUE>>
  /\ call.wire = <<[k |-> "R", reg |-> REG_TEMP_LSB, n |-> 1, data |-> <<>>]>>
  /\ rtc.eeprom.state = "RestoreControl1"
  /\ rtc.eepromLastStatus = "TIMEOUT"
  /\ now = U32Add(rtc.eeprom.deadlineMs, 0)
  /\ rtc.eeprom.deadlineMs = U32Add(StartMs, kEepromPreCmdTimeoutMs)
  /\ bus[REG_EE_DATA] = PMU_BSM_DIRECT
  /\ bus[REG_EE_COMMAND] = 0

\* The engine is polling the busy flag after the command
WaitsAfterCommand ==
  rtc.initialized /\ rtc.eeprom.state = "WaitReadyPostCmd"

\* Times of a poll, in milliseconds after the command was written, around
\* the configured timeout of 200 ms
PostWaitOffsets == {0, 1, 50, 199, 200, 201, 250}

\* The tick at the time d ms after the command was written, on a bus that
\* does not fail, with the busy flag and the failure flag as given
PostWaitPoll(d, busy, failed) ==
  tick(Ctx, [NoFault EXCEPT !.busy = busy, !.failed = failed],
       U32Add(U32Sub(rtc.eeprom.deadlineMs, U32Of(rtc.config.eepromTimeoutMs)), d))

\* C32: the wait after the command has a deadline that lies the configured
\* EEPROM timeout after the tick that wrote the command, and no poll moves
\* it.  A poll that reads the busy flag clear leaves EEPROM_WRITE_FAILED as
\* the result if the failure flag is set and OK if it is not; a poll that
\* reads the busy flag set once the timeout has elapsed leaves TIMEOUT; in
\* these three cases the engine goes to RestoreControl1 and the write is not
\* ended by the poll.  A poll that reads the busy flag set before that
\* leaves the engine waiting.
C32_PostCommandWait ==
  /\ [][/\ (IsCall /\ call'.op = "tick" /\ rtc.eeprom.state = "WriteCmd"
            /\ call'.log = <<TRUE>>) =>
             /\ rtc'.eeprom.state = "WaitReadyPostCmd"
             /\ rtc'.eeprom.deadlineMs = U32Add(now, rtc.config.eepromTimeoutMs)
        /\ (rtc.eeprom.state = "WaitReadyPostCmd"
            /\ rtc'.eeprom.state = "WaitReadyPostCmd") =>
             (rtc'.eeprom.deadlineMs = rtc.eeprom.deadlineMs)]_vars
  /\ [](WaitsAfterCommand =>
         \A d \in PostWaitOffsets, failed \in BOOLEAN :
           LET clear == PostWaitPoll(d, FALSE, failed)
               set == PostWaitPoll(d, TRUE, failed)
               T == rtc.config.eepromTimeoutMs
           IN /\ clear.rtc.eeprom.state = "RestoreControl1"
              /\ clear.rtc.eepromLastStatus =
                   (IF failed THEN "EEPROM_WRITE_FAILED" ELSE "OK")
              /\ clear.ev = <<>> /\ set.ev = <<>>
              /\ clear.bus = bus /\ set.bus = bus
              /\ (d >= T) =>
                   /\ set.rtc.eeprom.state = "RestoreControl1"
                   /\ set.rtc.eepromLastStatus = "TIMEOUT"
              /\ (d < T) =>
                   /\ set.rtc.eeprom = rtc.eeprom
                   /\ set.rtc.eepromLastStatus = rtc.eepromLastStatus)

\* The busy flag was still set 200 ms after the command was written: the
\* engine is in RestoreControl1 with TIMEOUT
C32_Witness ==
  /\ call.op = "tick"
  /\ call.log = <<TRUE>>
  /\ call.wire = <<[k |-> "R", reg |-> REG_TEMP_LSB, n |-> 1, data |-> <<>>]>>
  /\ rtc.eeprom.state = "RestoreControl1"
  /\ rtc.eepromLastStatus = "TIMEOUT"
  /\ rtc.eeprom.deadlineMs = U32Add(StartMs, rtc.config.eepromTimeoutMs)
  /\ now = rtc.eeprom.deadlineMs
  /\ bus[REG_EE_COMMAND] = EEPROM_CMD_UPDATE

\* C33 as stated: for every start time s and every accepted timeout T > 0 of
\* the 32-bit range, the deadline s + T is reported as passed at the tick
\* time s + d exactly when d >= T (all sums modulo 2^32).
C33_DeadlineExact ==
  (call.op = "polled") => (call.passed <=> ~U32Lt(call.d, call.T))

\* The same for the waits that are shorter than 2^31 ms and the ticks that
\* come less than 2^31 ms after the deadline: there the comparison is exact
C33_DeadlineExactInWindow ==
  (call.op = "polled" /\ call.T[1] < Pow2(15)
   /\ (U32Lt(call.d, call.T) \/ U32Sub(call.d, call.T)[1] < Pow2(15))) =>
    (call.passed <=> ~U32Lt(call.d, call.T))

\* C34: when tick() keeps being called while time advances and no further
\* write is accepted, a persistence engine that has a write in flight or
\* queued eventually is Idle with an empty queue, every accepted write having
\* been started and ended, whatever the busy flag reads and whichever
\* transactions fail.
C34_WritesComplete ==
  isEepromBusy(rtc) ~>
    (rtc.eeprom.state = "Idle" /\ rtc.eeprom.queueCount = 0 /\ fifo = <<>>)

\* Two writes were accepted, no transaction failed and the busy flag never
\* cleared: both have ended with TIMEOUT after the wait before the command,
\* the engine is Idle
C34_Witness ==
  /\ call.op = "tick"
  /\ call.ev # <<>>
  /\ Last(call.ev).k = "finish" /\ Last(call.ev).st = "TIMEOUT"
  /\ rtc.eeprom.state = "Idle" /\ rtc.eeprom.queueCount = 0
  /\ fifo = <<>>
  /\ rtc.eepromWriteFailures = U32Of(2)
  /\ rtc.totalFailures = U32Of(0)
  /\ bus[REG_EE_COMMAND] = 0

TrackedCalls(c) ==
  IF c.op = "probe" THEN 0
  ELSE IF c.op = "begin" THEN (IF c.tx = 0 THEN 0 ELSE c.tx - 1)
  ELSE c.tx

\* How many of the outcomes in the sequence are b
CountOf(log, b) == Cardinality({i \in 1..Len(log) : log[i] = b})

C37_RingInvariant ==
  LET e == rtc.eeprom IN
  /\ (e.state = "Idle") => (e.queueCount = 0)
  /\ isEepromBusy(rtc) <=> (e.state # "Idle")
  /\ e.queueCount \in 0..kEepromQueueSize
  /\ e.queueHead \in 0..(kEepromQueueSize - 1)
  /\ e.queueTail \in 0..(kEepromQueueSize - 1)
  /\ e.queueHead = (e.queueTail + e.queueCount) % kEepromQueueSize

\* The ring is full and has wrapped: a write was accepted after the first
\* queued one had been started, and head and tail are both at slot 1
C37_Witness ==
  /\ rtc.eeprom.queueCount = kEepromQueueSize
  /\ rtc.eeprom.queueTail = 1
  /\ rtc.eeprom.queueHead = 1
  /\ rtc.eeprom.state # "Idle"
  /\ call.op \in PersistingOps
  /\ call.st = "IN_PROGRESS"

\* C38 as stated: on a bus that does not fail and a device whose unlock bit
\* (EERD of CONTROL1) is clear at the start, whenever the engine is Idle the
\* unlock bit of the device is clear, whatever public calls and ticks come,
\* end() and a second begin() during a write included.
C38_IdleMeansLocked ==
  (rtc.eeprom.state = "Idle") => (Bit(bus[REG_CONTROL1], CTRL1_EERD_BIT) = 0)

\* C39: in every state of a running driver, setClkoutEnabled() with the
\* value the volatile register already holds returns OK after its two reads,
\* writes no register, starts no write and queues none: the engine, its
\* queue and the device are as before.  This holds in particular after the
\* same call was refused with QUEUE_FULL (the volatile register holds the
\* new value, the queue does not) and after the write it had queued ended
\* with an error.  With the other value the call writes the register.
C39_NoChangeWrite ==
  rtc.initialized =>
    LET same == setClkoutEnabled(Ctx, NoFault, ClkoutIsEnabled)
        other == setClkoutEnabled(Ctx, NoFault, ~ClkoutIsEnabled)
        R == [k |-> "R", reg |-> REG_EEPROM_PMU, n |-> 1, data |-> <<>>]
    IN /\ same.st = "OK"
       /\ same.wire = <<R, R>>
       /\ same.bus = bus
       /\ same.ev = <<>>
       /\ same.rtc.eeprom = rtc.eeprom
       /\ same.rtc.eepromLastStatus = rtc.eepromLastStatus
       /\ Replay(fifo, same.ev).q = fifo
       /\ Len(other.wire) = 3
       /\ other.wire[3].k = "W"
       /\ other.bus[REG_EEPROM_PMU] # bus[REG_EEPROM_PMU]

\* The call has been repeated after QUEUE_FULL and has returned OK after two
\* reads: the queue is full and its newest entry is not the value that the
\* volatile register holds
C39_Witness ==
  /\ call.op = "setClkoutEnabled"
  /\ call.st = "OK"
  /\ call.log = <<TRUE, TRUE>>
  /\ Len(call.wire) = 2
  /\ call.ev = <<>>
  /\ rtc.eeprom.queueCount = kEepromQueueSize
  /\ Len(fifo) = kEepromQueueSize
  /\ Last(fifo).reg = REG_EEPROM_PMU
  /\ Last(fifo).value # bus[REG_EEPROM_PMU]

\* The writes that ended in the call, by whether they ended with OK
EndedWith(evs, ok) ==
  {i \in 1..Len(evs) : evs[i].k = "finish" /\ ((evs[i].st = "OK") <=> ok)}

\* C40: a call ends at most one write.  A write that ends with an error
\* while another one is queued leaves no trace in getEepromStatus(): the
\* same tick starts the queued write, the recorded status is OK again and
\* getEepromStatus() is IN_PROGRESS, as it is as long as the engine is busy;
\* when a write ends with nothing queued, getEepromStatus() is the result of
\* that write and of no earlier one.  The error is counted: outside begin()
\* and end(), the write counter goes up by one for each write that ends with
\* OK and the write-failure counter by one for each write that ends with an
\* error, and neither changes otherwise.
C40_FailureMasked ==
  [][IsCall =>
       LET evs == call'.ev
           good == EndedWith(evs, TRUE)
           bad == EndedWith(evs, FALSE)
           ended == good \cup bad
           started == {i \in 1..Len(evs) : evs[i].k = "start"}
       IN /\ Cardinality(ended) <= 1
          /\ isEepromBusy(rtc') => (getEepromStatus(rtc') = "IN_PROGRESS")
          /\ \A i \in ended :
               /\ (rtc.eeprom.queueCount > 0) =>
                    /\ i + 1 \in started
                    /\ rtc'.eepromLastStatus = "OK"
                    /\ getEepromStatus(rtc') = "IN_PROGRESS"
               /\ (rtc.eeprom.queueCount = 0) =>
                    /\ started = {}
                    /\ getEepromStatus(rtc') = evs[i].st
          /\ (call'.op \notin {"begin", "end"}) =>
               /\ rtc'.eepromWriteCount =
                    U32Add(rtc.eepromWriteCount, Cardinality(good))
               /\ rtc'.eepromWriteFailures =
                    U32Add(rtc.eepromWriteFailures, Cardinality(bad))
          /\ (started # {} /\ ended = {}) => (rtc'.eepromLastStatus = "OK")]_vars

\* The EEPROM reported a failed write while another write was queued: the
\* tick that ended the first with EEPROM_WRITE_FAILED started the second, the
\* recorded status is OK, getEepromStatus() is IN_PROGRESS and the failure
\* counter is 1
C40_Witness ==
  /\ call.op = "tick"
  /\ Len(call.ev) = 2
  /\ call.ev[1].k = "finish" /\ call.ev[1].st = "EEPROM_WRITE_FAILED"
  /\ call.ev[2].k = "start"
  /\ rtc.eepromLastStatus = "OK"
  /\ getEepromStatus(rtc) = "IN_PROGRESS"
  /\ rtc.eepromWriteFailures = U32Of(1)
  /\ rtc.eepromWriteCount = U32Of(0)

\* The Gregorian calendar, written down independently of the driver
GregorianLeap(y) == (y % 4 = 0 /\ y % 100 # 0) \/ y % 400 = 0

GregorianMonthLength(y, m) ==
  IF m = 2 THEN (IF GregorianLeap(y) THEN 29 ELSE 28)
  ELSE IF m \in {4, 6, 9, 11} THEN 30 ELSE 31

\* Leap years among the years 1..y
LeapYearsUpTo(y) == ((y \div 4) - (y \div 100)) + (y \div 400)

RECURSIVE DaysBeforeMonthOf(_, _)
DaysBeforeMonthOf(y, m) ==
  IF m <= 1 THEN 0
  ELSE DaysBeforeMonthOf(y, m - 1) + GregorianMonthLength(y, m - 1)

\* Days from 1 January 1970 to the date
GregorianDayNumber(y, m, d) ==
  (365 * (y - 1970)) + (LeapYearsUpTo(y - 1) - LeapYearsUpTo(1969))
  + DaysBeforeMonthOf(y, m) + (d - 1)

\* The uint32_t ts is days * 86400 + secs (secs below 86400)
IsDaysAndSeconds(ts, days, secs) ==
  LET low == (days * (86400 - 65536)) + secs IN
  /\ ts[2] = low % 65536
  /\ ts[1] = days + (low \div 65536)

\* C21: for every calendar value it accepts, dateTimeToUnix returns
\* days * 86400 + hour * 3600 + minute * 60 + second, days being the days
\* since 1 January 1970 in the Gregorian calendar; 2000-01-01 00:00:00 gives
\* 946684800 and 2020-02-29 12:34:56 gives 1582979696, and unixToDateTime
\* gives back the date and the time of day of both.
C21_UnixOfDateTime ==
  /\ (call.op \in {"dateTimeToUnix", "unixToDateTime"} /\ isValidDateTime(call.t)) =>
       /\ call.op = "dateTimeToUnix" => call.ok
       /\ IsDaysAndSeconds(call.ts,
                           GregorianDayNumber(call.t.year, call.t.month, call.t.day),
                           (call.t.hour * 3600) + (call.t.minute * 60) + call.t.second)
       /\ (call.t.year = 2000 /\ call.t.month = 1 /\ call.t.day = 1
           /\ call.t.hour = 0 /\ call.t.minute = 0 /\ call.t.second = 0) =>
            ((call.ts[1] * 65536) + call.ts[2] = 946684800)
       /\ (call.t.year = 2020 /\ call.t.month = 2 /\ call.t.day = 29
           /\ call.t.hour = 12 /\ call.t.minute = 34 /\ call.t.second = 56) =>
            ((call.ts[1] * 65536) + call.ts[2] = 1582979696)
  /\ (call.op = "unixToDateTime"
      /\ call.ts \in {U32Of(946684800), U32Of(1582979696)}) =>
       /\ call.ok
       /\ call.out.year = call.t.year /\ call.out.month = call.t.month
       /\ call.out.day = call.t.day /\ call.out.hour = call.t.hour
       /\ call.out.minute = call.t.minute /\ call.out.second = call.t.second

\* 29 February 2020, 12:34:56 became 1582979696 and came back
C21_Witness ==
  /\ call.op = "unixToDateTime"
  /\ call.ok
  /\ call.ts = U32Of(1582979696)
  /\ call.out.year = 2020 /\ call.out.month = 2 /\ call.out.day = 29
  /\ call.out.hour = 12 /\ call.out.minute = 34 /\ call.out.second = 56

\* The calendar day after year y, month m, day d
FollowingDay(y, m, d) ==
  IF d < GregorianMonthLength(y, m) THEN [year |-> y, month |-> m, day |-> d + 1]
  ELSE IF m < 12 THEN [year |-> y, month |-> m + 1, day |-> 1]
  ELSE [year |-> y + 1, month |-> 1, day |-> 1]

\* C22: for every date of the calendar in 2000..2099, computeWeekday is (days
\* since 1 January 1970 + 4) mod 7, a value in 0..6 that is 6 for 1 January
\* 2000, and computeWeekday of the following calendar day is that value plus
\* one modulo 7.
C22_WeekdayOfDate ==
  (/\ call.op = "computeWeekday"
   /\ call.d.day <= GregorianMonthLength(call.d.year, call.d.month)) =>
     LET next == FollowingDay(call.d.year, call.d.month, call.d.day) IN
     /\ call.weekday \in 0..6
     /\ call.weekday =
          (GregorianDayNumber(call.d.year, call.d.month, call.d.day) + 4) % 7
     /\ (call.d = [year |-> 2000, month |-> 1, day |-> 1]) => (call.weekday = 6)
     /\ computeWeekday(next.year, next.month, next.day) = (call.weekday + 1) % 7

\* 31 December 2099 is a Thursday, and the day after it a Friday
C22_Witness ==
  /\ call.op = "computeWeekday"
  /\ call.d = [year |-> 2099, month |-> 12, day |-> 31]
  /\ call.weekday = 4
  /\ computeWeekday(2100, 1, 1) = 5

\* C23: for every year in 2000..2099 and every month, a calendar value whose
\* day is past the end of the month (February has 29 days in leap years and
\* 28 otherwise) is rejected by isValidDateTime and by dateTimeToUnix.
C23_DayPastMonthEnd ==
  (/\ call.op = "dateTimeToUnix"
   /\ call.t.year \in 2000..2099 /\ call.t.month \in 1..12
   /\ call.t.day > GregorianMonthLength(call.t.year, call.t.month)) =>
     /\ ~call.ok
     /\ ~isValidDateTime(call.t)

\* 29 February 2021 was rejected
C23_Witness ==
  /\ call.op = "dateTimeToUnix"
  /\ call.t.year = 2021 /\ call.t.month = 2 /\ call.t.day = 29
  /\ call.t.hour = 0 /\ call.t.weekday = 0
  /\ ~call.ok

\* ts is at least 946684800 = 14445 * 2^16 + 17280 and at most
\* 4102444799 = 62598 * 2^16 + 22271
InRtcWindow(ts) ==
  /\ ts[1] > 14445 \/ (ts[1] = 14445 /\ ts[2] >= 17280)
  /\ ts[1] < 62598 \/ (ts[1] = 62598 /\ ts[2] <= 22271)

\* C24: unixToDateTime succeeds exactly for the timestamps from 946684800
\* (2000-01-01 00:00:00) to 4102444799 (2099-12-31 23:59:59); 946684799,
\* 4102444800 and 0xFFFFFFFF are rejected; and every calendar value it
\* returns passes isValidDateTime.
C24_UnixWindow ==
  /\ (call.op = "unixToDateTimeAt") =>
       /\ call.ok <=> InRtcWindow(call.ts)
       /\ (call.ts \in {<<14445, 17279>>, <<62598, 22272>>, <<65535, 65535>>}) =>
            ~call.ok
       /\ (call.ts = <<14445, 17280>>) =>
            (call.ok /\ call.out.year = 2000 /\ call.out.month = 1
             /\ call.out.day = 1 /\ call.out.hour = 0 /\ call.out.minute = 0
             /\ call.out.second = 0)
       /\ (call.ts = <<62598, 22271>>) =>
            (call.ok /\ call.out.year = 2099 /\ call.out.month = 12
             /\ call.out.day = 31 /\ call.out.hour = 23 /\ call.out.minute = 59
             /\ call.out.second = 59)
  /\ (call.op \in {"unixToDateTimeAt", "unixToDateTime"} /\ call.ok) =>
       isValidDateTime(call.out)

\* The first second of 2100 was rejected
C24_Witness ==
  /\ call.op = "unixToDateTimeAt"
  /\ call.ts = <<62598, 22272>>
  /\ ~call.ok
  /\ unixToDateTime(<<62598, 22271>>).ok

\* The timestamps of the unit tests: 1 January 2000 and 29 February 2020
CodecAnchors ==
  /\ dateTimeToUnix([year |-> 2000, month |-> 1, day |-> 1, hour |-> 0,
                      minute |-> 0, second |-> 0, weekday |-> 0]).out
       = U32Of(kEpoch2000)
  /\ dateTimeToUnix([year |-> 2020, month |-> 2, day |-> 29, hour |-> 12,
                      minute |-> 34, second |-> 56, weekday |-> 0]).out
       = U32Of(1582979696)
  /\ computeWeekday(2000, 1, 1) = 6
  /\ ~unixToDateTime(UINT32_MAX).ok

====
